---- MODULE Spec2Model ----
(***************************************************************************)
(* Model of the Roo-NB tool gateway: the range/index validators of the     *)
(* tool dispatcher (mcp-server.ts), the execution synchronizer             *)
(* executeNotebookCells (notebook service), the bounded body reader        *)
(* parseRequestBody, the request server (createServer callback and         *)
(* handleHttpRequest), the call-tool handler with handleToolCall           *)
(* (mcp-server.ts) and the operations of NotebookService on the host's     *)
(* notebook document.                                                      *)
(*                                                                         *)
(* Each component has its own variables and its own specification; the     *)
(* variables of the other components stay at their idle values.            *)
(***************************************************************************)
EXTENDS Integers, Sequences, FiniteSets, TLC

(***************************************************************************)
(* Bounds of the model                                                     *)
(***************************************************************************)
\* largest number of cells of a notebook
MaxCells == 2
\* arguments of the validators range over -1 .. MaxCells + ArgSlack
ArgSlack == 1
\* completion markers (executionOrder) are 0 (undefined) .. MaxMarker
MaxMarker == 1
\* the configured execution timeout, in ticks of 100 ms
MaxTimeout == 4
\* longest time the awaited execute command takes to return, in ticks
MaxCmdDelay == 5
\* a timer fires at most MaxJitter ticks after its delay
MaxJitter == 1
\* the configured maximum request size, in bytes
MaxSize == 3
\* most bytes in one chunk of a request body
MaxChunkLen == 2
\* most 'data' events of one request
MaxChunks == 2
\* the id of a JSON-RPC request is absent or 0 .. MaxRequestId
MaxRequestId == 1
\* most MCPServer instances constructed in one run
MaxServers == 2
\* configured numbers lie within ConfigSlack of a bound of their setting
ConfigSlack == 1

(***************************************************************************)
(* Program constants, in ticks of 100 ms                                   *)
(***************************************************************************)
\* setTimeout(resolve, 200): wait between two polls
PollInterval == 2
\* setTimeout(resolve, 500): settle delay after completion
SettleDelay == 5

VARIABLES
    \* ---- tool dispatcher / validators ----
    activeNotebook,   \* vscode.window.activeNotebookEditor is defined
    cellCount,        \* live notebook.cellCount / getCells().length
    call,             \* the last tool call: name, arguments, count it read
    outcome,          \* what the validation callback of that call did
    \* ---- execution synchronizer (executeNotebookCells) ----
    cells,            \* the live cells: kind, blank content, executionOrder
    startIndex,       \* argument startIndex
    stopIndex,        \* argument stopIndex
    timeoutMs,        \* timeoutSeconds * 1000, in ticks
    pc,               \* position of the async function
    previousExecutionOrders, \* Map cell.index -> executionOrder before execute
    executionComplete,
    allComplete,
    allCompleteOlder, \* allComplete of the older copy on the same schedule
    now,              \* Date.now()
    startTime,
    commands,         \* "notebook.cell.execute" commands sent to the host
    polls,            \* iterations of the polling loop so far
    waits,            \* 200 ms waits started so far
    kernelChanged,    \* cells whose marker the kernel changed since the snapshot
    result,           \* the string returned by executeNotebookCells
    toolResponse,     \* the CallTool response of the enclosing tool call
    \* ---- bounded body reader (parseRequestBody) ----
    maxSize,          \* argument maxSize
    body,             \* let body = '' (a string, as a sequence of characters)
    bodySize,         \* let bodySize = 0
    sizeExceeded,     \* let sizeExceeded = false
    resolved,         \* let resolved = false
    promise,          \* the promise returned: state, value, reason
    settles,          \* calls of the promise's resolve / reject so far
    listeners,        \* events of req that still have a listener
    chunksSeen,       \* the chunks req has emitted so far
    ended,            \* req has emitted 'end'
    errored,          \* req has emitted 'error'
    closed,           \* req has emitted 'close'
    \* ---- request server (createServer callback, handleHttpRequest) ----
    request,          \* req.method and req.url
    transport,        \* this.transport: "unset", "set", or "closed" by stop()
    hpc,              \* position of handleHttpRequest
    timeoutHandle,    \* the per-request timer
    res,              \* the response: headersSent, the responses started
    readerStarted,    \* parseRequestBody has been called
    dispatched,       \* transport.handleRequest has been called
    requestBody,      \* the parsed body
    raised,           \* the exception a stage of the request has raised
    escaped,          \* an exception left the createServer callback
    \* ---- tool dispatcher (call-tool handler, handleToolCall) ----
    toolRequest,      \* request.params: name and arguments
    toolFailure,      \* the exception handleToolCall threw, if any
    callToolResult,   \* what the call-tool handler returned
    hostCalls,        \* calls made on the host's document / kernel API
    toolEscaped,      \* an exception left the call-tool handler
    \* ---- notebook service (NotebookService) and the host's document ----
    activeNotebookEditor, \* vscode.window.activeNotebookEditor is defined
    notebook,         \* the cells of its document: kind, languageId, content
    version,          \* the edits the host has committed to the document
    applyEdits,       \* workspace.applyEdit requests not yet committed
    handlers,         \* the service call of each caller
    \* ---- MCP module state (let mcpServer, globalContext) and its servers ----
    mcpServer,        \* let mcpServer: 0 for null, else the MCPServer instance
    globalContext,    \* let globalContext is not null
    mcpEnable,        \* the setting roo-nb.mcp.enable
    servers,          \* every MCPServer instance constructed so far
    moduleCalls,      \* the asynchronous module calls in progress
    \* ---- configuration (ConfigValidator) ----
    config,           \* the values of the roo-nb settings, as configured
    settings          \* the validated values read so far

varsValidate == <<activeNotebook, cellCount, call, outcome>>
varsSync == <<cells, startIndex, stopIndex, timeoutMs, pc,
              previousExecutionOrders, executionComplete, allComplete,
              allCompleteOlder, now, startTime, commands, polls, waits,
              kernelChanged, result,
              toolResponse>>
varsBody == <<maxSize, body, bodySize, sizeExceeded, resolved, promise,
              settles, listeners, chunksSeen, ended, errored, closed>>
varsHttp == <<request, transport, hpc, timeoutHandle, res, readerStarted,
              dispatched, requestBody, raised, escaped>>
varsTool == <<toolRequest, toolFailure, callToolResult, hostCalls,
              toolEscaped>>
varsNotebook == <<activeNotebookEditor, notebook, version, applyEdits,
                  handlers>>
varsModule == <<mcpServer, globalContext, mcpEnable, servers, moduleCalls>>
varsConfig == <<config, settings>>
vars == <<varsValidate, varsSync, varsBody, varsHttp, varsTool, varsNotebook,
          varsModule, varsConfig>>

(***************************************************************************)
(* Values of the synchronizer's variables before it is called              *)
(***************************************************************************)
NoResult == [kind |-> "none", warning |-> FALSE, shown |-> <<>>]
NoResponse == [sent |-> FALSE, isError |-> FALSE, prefix |-> "none",
               text |-> NoResult]

IdleSync ==
    /\ cells = <<>>
    /\ startIndex = 0
    /\ stopIndex = 0
    /\ timeoutMs = MaxTimeout
    /\ pc = "idle"
    /\ previousExecutionOrders = <<>>
    /\ executionComplete = FALSE
    /\ allComplete = FALSE
    /\ allCompleteOlder = FALSE
    /\ now = 0
    /\ startTime = 0
    /\ commands = <<>>
    /\ polls = 0
    /\ waits = 0
    /\ kernelChanged = {}
    /\ result = NoResult
    /\ toolResponse = NoResponse

(***************************************************************************)
(* Values of the body reader's variables before it is called               *)
(***************************************************************************)
PendingPromise == [state |-> "pending", value |-> <<>>, reason |-> "none"]

IdleBody ==
    /\ maxSize = MaxSize
    /\ body = <<>>
    /\ bodySize = 0
    /\ sizeExceeded = FALSE
    /\ resolved = FALSE
    /\ promise = PendingPromise
    /\ settles = 0
    /\ listeners = {}
    /\ chunksSeen = <<>>
    /\ ended = FALSE
    /\ errored = FALSE
    /\ closed = FALSE

(***************************************************************************)
(* Values of the request server's variables while no request is handled    *)
(***************************************************************************)
NoResponseStarted == [headersSent |-> FALSE, written |-> <<>>, late |-> 0]
NoException == [what |-> "none", unanswered |-> FALSE]

IdleHttp ==
    /\ request = [method |-> "POST", url |-> "/mcp"]
    /\ transport = "unset"
    /\ hpc = "idle"
    /\ timeoutHandle = "null"
    /\ res = NoResponseStarted
    /\ readerStarted = FALSE
    /\ dispatched = FALSE
    /\ requestBody = [kind |-> "none"]
    /\ raised = NoException
    /\ escaped = FALSE

(***************************************************************************)
(* Values of the dispatcher's variables while no tool call is handled      *)
(***************************************************************************)
NoMessage == [template |-> "none", name |-> "none", args |-> <<>>]
NoExc == [class |-> "none", code |-> "NONE", message |-> NoMessage]
NoToolRequest == [name |-> "none", wellFormed |-> TRUE, a |-> 0, b |-> 0]
NoToolResult ==
    [returned |-> FALSE, isError |-> FALSE,
     content |-> <<>>]

IdleTool ==
    /\ toolRequest = NoToolRequest
    /\ toolFailure = NoExc
    /\ callToolResult = NoToolResult
    /\ hostCalls = <<>>
    /\ toolEscaped = FALSE

(***************************************************************************)
(* Values of the notebook service's variables before any call              *)
(***************************************************************************)
\* the callers whose calls may be in flight together: two requests
Callers == {"first", "second"}

NoServiceRequest ==
    [name |-> "none", a |-> 0, b |-> 0, hasPosition |-> FALSE,
     cells |-> <<>>, noexec |-> FALSE]

NoText ==
    [template |-> "none", args |-> <<>>, execution |-> "none", shown |-> <<>>]

\* no "notebook.cell.execute" command has been sent
NoCommand == [issued |-> FALSE, start |-> 0, end |-> 0, cellCount |-> 0]

\* a caller that has not called: no count read, no edit committed
NoHandler ==
    [rq |-> NoServiceRequest, pc |-> "idle", validated |-> FALSE,
     existingCells |-> <<>>, readVersion |-> 0 - 1, startIndex |-> 0,
     stopIndex |-> 0, cellDataArray |-> <<>>, calls |-> <<>>,
     commitVersion |-> 0 - 1, appliedTo |-> <<>>, exc |-> NoExc,
     text |-> NoText, command |-> NoCommand]

IdleNotebook ==
    /\ activeNotebookEditor = FALSE
    /\ notebook = <<>>
    /\ version = 0
    /\ applyEdits = <<>>
    /\ handlers = [c \in Callers |-> NoHandler]

(***************************************************************************)
(* Values of the MCP module's variables before the extension is activated  *)
(***************************************************************************)
ServerIds == 1 .. MaxServers
\* initializeMCPModule's async body and configureProjectMCPServer
ModuleCallers == {"initialize", "configure"}
\* an MCPServer that has not been constructed: httpServer = null, port = 0,
\* transport = null; socket is the state of the http.Server it creates
NoServer ==
    [created |-> FALSE, httpServer |-> FALSE, socket |-> "none", port |-> 0,
     transport |-> FALSE, start |-> "none", stops |-> <<>>]
NoModuleCall == [pc |-> "idle", server |-> 0, port |-> 0]

IdleModule ==
    /\ mcpServer = 0
    /\ globalContext = FALSE
    /\ mcpEnable = FALSE
    /\ servers = [i \in ServerIds |-> NoServer]
    /\ moduleCalls = [c \in ModuleCallers |-> NoModuleCall]

(***************************************************************************)
(* Values of a setting, and the settings before any is read                *)
(***************************************************************************)
NumericKeys == {"maxOutputSize", "timeoutSeconds",
                "mcp.requestTimeoutSeconds", "mcp.maxRequestSizeMB"}
\* a configured value: a finite number n, NaN, an infinity, a value that is
\* not a number, or no value at all
Number(n) == [kind |-> "number", n |-> n]
NotANumber == [kind |-> "NaN", n |-> 0]
PositiveInfinity == [kind |-> "Infinity", n |-> 0]
NegativeInfinity == [kind |-> "-Infinity", n |-> 0]
AString == [kind |-> "string", n |-> 0]
Undefined == [kind |-> "undefined", n |-> 0]
\* a setting that no call has read
Unread == 0 - 1

IdleConfig ==
    /\ config = [k \in NumericKeys |-> Undefined]
    /\ settings = [k \in NumericKeys |-> Unread]

(***************************************************************************)
(* errors.ts: ErrorFactory                                                 *)
(***************************************************************************)
NoError ==
    [code |-> "NONE", startIndex |-> 0, stopIndex |-> 0, cellIndex |-> 0,
     cellCount |-> 0, operation |-> "none"]

\* ErrorFactory.noActiveNotebook(operation)
noActiveNotebook(operation) ==
    [code |-> "NO_ACTIVE_NOTEBOOK", startIndex |-> 0, stopIndex |-> 0,
     cellIndex |-> 0, cellCount |-> 0, operation |-> operation]

\* ErrorFactory.indexOutOfBounds(index, maxIndex, operation):
\* context { cellIndex: index, cellCount: maxIndex + 1, operation }
indexOutOfBoundsSame(index, maxIndex, operation) ==
    [code |-> "INDEX_OUT_OF_BOUNDS", startIndex |-> 0, stopIndex |-> 0,
     cellIndex |-> index, cellCount |-> maxIndex, operation |-> operation]

indexOutOfBounds(index, maxIndex, operation) ==
    [code |-> "INDEX_OUT_OF_BOUNDS", startIndex |-> 0, stopIndex |-> 0,
     cellIndex |-> index, cellCount |-> maxIndex + 1, operation |-> operation]

\* ErrorFactory.rangeOutOfBounds(startIndex, stopIndex, cellCount, operation)
rangeOutOfBounds(start, stop, count, operation) ==
    [code |-> "INDEX_OUT_OF_BOUNDS", startIndex |-> start,
     stopIndex |-> stop, cellIndex |-> 0, cellCount |-> count,
     operation |-> operation]

(***************************************************************************)
(* mcp-server.ts: the validation callbacks built by handleToolCall.        *)
(* A callback either returns the indices or throws; the result is          *)
(* [thrown, error, startIndex, stopIndex].                                 *)
(***************************************************************************)
Returned(s, e) ==
    [thrown |-> FALSE, error |-> NoError, startIndex |-> s, stopIndex |-> e]

Thrown(err) ==
    [thrown |-> TRUE, error |-> err, startIndex |-> 0, stopIndex |-> 0]

\* (cellCount) => { if (start_index < 0 || start_index >= cellCount) throw ...;
\*                  if (stop_index <= start_index || stop_index > cellCount) throw ...;
\*                  return { startIndex, stopIndex } }
\* replace (lines 163-172), execute (198-206) and delete (215-223) each build
\* this same callback, with their own tool name
RangeValidatorLax(start_index, stop_index, count, toolName) ==
    IF start_index < 0 \/ start_index >= count
    THEN Thrown(rangeOutOfBounds(start_index, stop_index, count, toolName))
    ELSE IF stop_index < start_index \/ stop_index > count
    THEN Thrown(rangeOutOfBounds(start_index, stop_index, count, toolName))
    ELSE Returned(start_index, stop_index)

RangeValidator(start_index, stop_index, count, toolName) ==
    IF start_index < 0 \/ start_index >= count
    THEN Thrown(rangeOutOfBounds(start_index, stop_index, count, toolName))
    ELSE IF stop_index <= start_index \/ stop_index > count
    THEN Thrown(rangeOutOfBounds(start_index, stop_index, count, toolName))
    ELSE Returned(start_index, stop_index)

\* (cellCount) => { if (cell_index < 0 || cell_index >= cellCount)
\*                      throw indexOutOfBounds(cell_index, cellCount - 1, toolName);
\*                  return cell_index }
\* modifyCellContent turns the index into the range [cellIndex, cellIndex + 1)
IndexValidator(cell_index, count, toolName) ==
    IF cell_index < 0 \/ cell_index >= count
    THEN Thrown(indexOutOfBounds(cell_index, count - 1, toolName))
    ELSE Returned(cell_index, cell_index + 1)

RangeTools ==
    {"replace_notebook_cells", "execute_notebook_cells", "delete_notebook_cells"}
IndexTools == {"modify_notebook_cell_content"}

ArgValues == (0 - 1) .. (MaxCells + ArgSlack)

NoCall == [tool |-> "none", a |-> 0, b |-> 0, count |-> 0]

(***************************************************************************)
(* The handlers up to and including their validation callback:             *)
(* replaceCells / executeCells / deleteCells / modifyCellContent read the  *)
(* active editor, then the live cells, then call the callback with         *)
(* existingCells.length.                                                   *)
(***************************************************************************)
InitValidate ==
    /\ activeNotebook \in BOOLEAN
    /\ cellCount \in 0 .. MaxCells
    /\ call = NoCall
    /\ outcome = Returned(0, 0)
    /\ IdleSync
    /\ IdleBody
    /\ IdleHttp
    /\ IdleTool
    /\ IdleNotebook
    /\ IdleModule
    /\ IdleConfig

IdleValidate ==
    /\ activeNotebook = TRUE
    /\ cellCount = 0
    /\ call = NoCall
    /\ outcome = Returned(0, 0)

RangeToolCall(tool, s, e) ==
    /\ tool \in RangeTools
    /\ call' = [tool |-> tool, a |-> s, b |-> e, count |-> cellCount]
    /\ outcome' = IF ~activeNotebook
                  THEN Thrown(noActiveNotebook(tool))
                  ELSE RangeValidator(s, e, cellCount, tool)
    /\ UNCHANGED <<activeNotebook, cellCount>>
    /\ UNCHANGED <<varsSync, varsBody, varsHttp, varsTool, varsNotebook, varsModule, varsConfig>>

ModifyToolCall(i) ==
    /\ call' = [tool |-> "modify_notebook_cell_content", a |-> i, b |-> 0,
                count |-> cellCount]
    /\ outcome' = IF ~activeNotebook
                  THEN Thrown(noActiveNotebook("modify_notebook_cell_content"))
                  ELSE IndexValidator(i, cellCount, "modify_notebook_cell_content")
    /\ UNCHANGED <<activeNotebook, cellCount>>
    /\ UNCHANGED <<varsSync, varsBody, varsHttp, varsTool, varsNotebook, varsModule, varsConfig>>

\* the host document changes between calls (another edit, another notebook)
DocumentChanges(n) ==
    /\ n # cellCount
    /\ cellCount' = n
    /\ activeNotebook' = TRUE
    /\ UNCHANGED <<call, outcome>>
    /\ UNCHANGED <<varsSync, varsBody, varsHttp, varsTool, varsNotebook, varsModule, varsConfig>>

EditorCloses ==
    /\ activeNotebook
    /\ activeNotebook' = FALSE
    /\ UNCHANGED <<cellCount, call, outcome>>
    /\ UNCHANGED <<varsSync, varsBody, varsHttp, varsTool, varsNotebook, varsModule, varsConfig>>

NextValidate ==
    \/ \E tool \in RangeTools, s \in ArgValues, e \in ArgValues :
           RangeToolCall(tool, s, e)
    \/ \E i \in ArgValues : ModifyToolCall(i)
    \/ \E n \in 0 .. MaxCells : DocumentChanges(n)
    \/ EditorCloses

SpecValidate == InitValidate /\ [][NextValidate]_vars

(***************************************************************************)
(* C1: for replace, execute and delete, with the live cell count n read at *)
(* call time, the range validator accepts exactly when 0 <= s < e <= n and *)
(* otherwise throws a range error whose context carries s, e and n.        *)
(***************************************************************************)
RangeCallValidated ==
    call.tool \in RangeTools /\ outcome.error.code # "NO_ACTIVE_NOTEBOOK"

C1_RangeValidation ==
    RangeCallValidated =>
        LET s == call.a
            e == call.b
            n == call.count
        IN  /\ ~outcome.thrown <=> (0 <= s /\ s < e /\ e <= n)
            /\ ~outcome.thrown => outcome.startIndex = s /\ outcome.stopIndex = e
            /\ outcome.thrown =>
                   /\ outcome.error.code = "INDEX_OUT_OF_BOUNDS"
                   /\ outcome.error.startIndex = s
                   /\ outcome.error.stopIndex = e
                   /\ outcome.error.cellCount = n
                   /\ outcome.error.operation = call.tool

\* an empty range [s,s) whose start is a valid index has been rejected
C1_Witness ==
    /\ RangeCallValidated
    /\ call.a = call.b /\ 0 <= call.a /\ call.a < call.count
    /\ outcome.thrown

(***************************************************************************)
(* C2: for modify, the index validator accepts i exactly when 0 <= i < n,  *)
(* and otherwise throws an index error reporting i and cellCount = n,      *)
(* also when n = 0.                                                        *)
(***************************************************************************)
IndexCallValidated ==
    call.tool \in IndexTools /\ outcome.error.code # "NO_ACTIVE_NOTEBOOK"

C2_IndexValidation ==
    IndexCallValidated =>
        LET i == call.a
            n == call.count
        IN  /\ ~outcome.thrown <=> (0 <= i /\ i < n)
            /\ ~outcome.thrown =>
                   outcome.startIndex = i /\ outcome.stopIndex = i + 1
            /\ outcome.thrown =>
                   /\ outcome.error.code = "INDEX_OUT_OF_BOUNDS"
                   /\ outcome.error.cellIndex = i
                   /\ outcome.error.cellCount = n

\* index 0 has been rejected on an empty notebook
C2_Witness ==
    /\ IndexCallValidated
    /\ call.a = 0 /\ call.count = 0
    /\ outcome.thrown /\ outcome.error.cellCount = 0

(***************************************************************************)
(* The execution synchronizer: executeNotebookCells(cells, startIndex,     *)
(* stopIndex, maxOutputSize, timeoutSeconds).                              *)
(*                                                                         *)
(* A cell is [kind, blank, marker]: blank is                               *)
(* cell.document.getText().trim() === "", marker is                        *)
(* cell.executionSummary?.executionOrder with 0 for undefined.             *)
(* pc: "call" -> "command" (awaiting executeCommand) -> "loop" (at the     *)
(* while condition) -> "wait" / "settle" (awaiting a timer) -> "loop" ...  *)
(* -> "done" (string returned) -> "returned" (CallTool response built).    *)
(***************************************************************************)
MarkupCell == [kind |-> "markup", blank |-> FALSE, marker |-> 0]
\* a blank code cell has never been given an execution order
CodeCellValues ==
    {[kind |-> "code", blank |-> TRUE, marker |-> 0]}
        \cup {[kind |-> "code", blank |-> FALSE, marker |-> m] : m \in 0 .. 1}
CellValues == {MarkupCell} \cup CodeCellValues
Documents == UNION {[1 .. n -> CellValues] : n \in 0 .. MaxCells}

SyncTools == {"insert_notebook_cells", "replace_notebook_cells",
              "modify_notebook_cell_content", "execute_notebook_cells"}

\* the clock and the counters saturate here; the program never gets there
MaxClock == MaxTimeout + MaxCmdDelay + SettleDelay + MaxJitter

Min(a, b) == IF a < b THEN a ELSE b

\* cells.slice(startIndex, stopIndex), as 0-based indices
CellsToExecute ==
    {i \in 0 .. Len(cells) - 1 : startIndex <= i /\ i < stopIndex}

\* cellsToExecute.filter(cell => cell.kind === NotebookCellKind.Code)
CodeCellsUnfiltered == CellsToExecute

CodeCells == {i \in CellsToExecute : cells[i + 1].kind = "code"}

\* cell.document.getText().trim() === ""  ->  continue
NeverBypassed(i) == FALSE

IsBypassed(i) == cells[i + 1].blank

\* the for loop over codeCells: false as soon as one cell that is not
\* bypassed still has its previous execution order
CheckCells ==
    \A i \in CodeCells :
        IsBypassed(i) \/ cells[i + 1].marker # previousExecutionOrders[i]

\* the loop body of the older copy (extension.ts) does not reset allComplete
StaleAllComplete(prev) == prev /\ CheckCells

\* the copy in extension.ts declares `let allComplete = true` before the
\* while loop: its for loop only ever assigns false.  The two copies have
\* the same loop condition and the same waits, so they poll at the same
\* instants until this one completes; after that the older one's value can
\* no longer change
OlderAllComplete(prev) == IF CheckCells THEN prev ELSE FALSE

\* allComplete = true; for (...) { ... allComplete = false; break }
FreshAllComplete(prev) == CheckCells

\* while (!executionComplete && Date.now() - startTime < timeoutMs)
LoopNoDeadline == ~executionComplete

LoopContinues == ~executionComplete /\ now - startTime < timeoutMs

\* executeCommand("notebook.cell.execute", { start: startIndex,
\* end: stopIndex }): the commands one run sends
ExecuteCommandPerCell ==
    [k \in 1 .. (stopIndex - startIndex) |->
        <<startIndex + k - 1, startIndex + k>>]

ExecuteCommand == << <<startIndex, stopIndex>> >>

\* "No code cells found in the specified range"
NoCodeCellsReport == [kind |-> "nocode", warning |-> FALSE, shown |-> <<>>]

\* "# Cell Execution Results", the warning if (!allComplete), then showCell
\* of every code cell with its current execution label
ExecutionReport(all) ==
    [kind |-> "results", warning |-> ~all,
     shown |-> [i \in CodeCells |-> cells[i + 1].marker]]

\* setupToolHandlers: try { result = await handleToolCall(...);
\*   return { content: [{ type: 'text', text: result }] } }
CallToolResultTimeoutAsError(prefix, text) ==
    [sent |-> TRUE, isError |-> text.warning, prefix |-> prefix, text |-> text]

CallToolResult(prefix, text) ==
    [sent |-> TRUE, isError |-> FALSE, prefix |-> prefix, text |-> text]

InitSync ==
    /\ cells \in Documents
    /\ startIndex \in 0 .. MaxCells
    /\ stopIndex \in 0 .. MaxCells + 1
    /\ timeoutMs = MaxTimeout
    /\ pc = "call"
    /\ previousExecutionOrders = <<>>
    /\ executionComplete = FALSE
    /\ allComplete = FALSE
    /\ allCompleteOlder = FALSE
    /\ now = 0
    /\ startTime = 0
    /\ commands = <<>>
    /\ polls = 0
    /\ waits = 0
    /\ kernelChanged = {}
    /\ result = NoResult
    /\ toolResponse = NoResponse
    /\ IdleValidate
    /\ IdleBody
    /\ IdleHttp
    /\ IdleTool
    /\ IdleNotebook
    /\ IdleModule
    /\ IdleConfig

\* lines 123-150: slice, filter, early return or snapshot and execute command
Enter ==
    /\ pc = "call"
    /\ IF CodeCells = {}
       THEN /\ result' = NoCodeCellsReport
            /\ pc' = "done"
            /\ UNCHANGED <<previousExecutionOrders, executionComplete,
                           startTime, commands>>
       ELSE /\ previousExecutionOrders' =
                   [i \in CodeCells |-> cells[i + 1].marker]
            /\ executionComplete' = FALSE
            /\ startTime' = now
            /\ commands' = commands \o ExecuteCommand
            /\ pc' = "command"
            /\ UNCHANGED result
    /\ UNCHANGED <<cells, startIndex, stopIndex, timeoutMs, allComplete, allCompleteOlder, now,
                   polls, waits, kernelChanged, toolResponse>>
    /\ UNCHANGED <<varsValidate, varsBody, varsHttp, varsTool, varsNotebook, varsModule, varsConfig>>

\* the awaited executeCommand resolves after d ticks; let allComplete = true
CommandReturns(d) ==
    /\ pc = "command"
    /\ now' = Min(now + d, MaxClock)
    /\ allComplete' = TRUE
    /\ allCompleteOlder' = TRUE
    /\ pc' = "loop"
    /\ UNCHANGED <<cells, startIndex, stopIndex, timeoutMs,
                   previousExecutionOrders, executionComplete, startTime,
                   commands, polls, waits, kernelChanged, result, toolResponse>>
    /\ UNCHANGED <<varsValidate, varsBody, varsHttp, varsTool, varsNotebook, varsModule, varsConfig>>

\* one iteration of the while loop, up to its await
Poll ==
    /\ pc = "loop"
    /\ LoopContinues
    /\ allComplete' = FreshAllComplete(allComplete)
    /\ allCompleteOlder' = OlderAllComplete(allCompleteOlder)
    /\ polls' = Min(polls + 1, MaxClock)
    /\ IF allComplete'
       THEN /\ executionComplete' = TRUE
            /\ pc' = "settle"
            /\ UNCHANGED waits
       ELSE /\ pc' = "wait"
            /\ waits' = Min(waits + 1, MaxClock)
            /\ UNCHANGED executionComplete
    /\ UNCHANGED <<cells, startIndex, stopIndex, timeoutMs,
                   previousExecutionOrders, now, startTime, commands,
                   kernelChanged, result, toolResponse>>
    /\ UNCHANGED <<varsValidate, varsBody, varsHttp, varsTool, varsNotebook, varsModule, varsConfig>>

\* await new Promise(resolve => setTimeout(resolve, 500))
SettleElapses(j) ==
    /\ pc = "settle"
    /\ now' = Min(now + SettleDelay + j, MaxClock)
    /\ pc' = "loop"
    /\ UNCHANGED <<cells, startIndex, stopIndex, timeoutMs,
                   previousExecutionOrders, executionComplete, allComplete, allCompleteOlder,
                   startTime, commands, polls, waits, kernelChanged, result,
                   toolResponse>>
    /\ UNCHANGED <<varsValidate, varsBody, varsHttp, varsTool, varsNotebook, varsModule, varsConfig>>

\* await new Promise(resolve => setTimeout(resolve, 200))
WaitElapses(j) ==
    /\ pc = "wait"
    /\ now' = Min(now + PollInterval + j, MaxClock)
    /\ pc' = "loop"
    /\ UNCHANGED <<cells, startIndex, stopIndex, timeoutMs,
                   previousExecutionOrders, executionComplete, allComplete, allCompleteOlder,
                   startTime, commands, polls, waits, kernelChanged, result,
                   toolResponse>>
    /\ UNCHANGED <<varsValidate, varsBody, varsHttp, varsTool, varsNotebook, varsModule, varsConfig>>

\* the loop condition is false: format the results and return
Finish ==
    /\ pc = "loop"
    /\ ~LoopContinues
    /\ result' = ExecutionReport(allComplete)
    /\ pc' = "done"
    /\ UNCHANGED <<cells, startIndex, stopIndex, timeoutMs,
                   previousExecutionOrders, executionComplete, allComplete, allCompleteOlder,
                   now, startTime, commands, polls, waits, kernelChanged,
                   toolResponse>>
    /\ UNCHANGED <<varsValidate, varsBody, varsHttp, varsTool, varsNotebook, varsModule, varsConfig>>

\* the enclosing tool call (insertCells, replaceCells, modifyCellContent or
\* executeCells) prepends its own line and returns its CallTool response
ToolReturns(tool) ==
    /\ pc = "done"
    /\ toolResponse' = CallToolResult(tool, result)
    /\ pc' = "returned"
    /\ UNCHANGED <<cells, startIndex, stopIndex, timeoutMs,
                   previousExecutionOrders, executionComplete, allComplete, allCompleteOlder,
                   now, startTime, commands, polls, waits, kernelChanged,
                   result>>
    /\ UNCHANGED <<varsValidate, varsBody, varsHttp, varsTool, varsNotebook, varsModule, varsConfig>>

\* the kernel gives code cell i of the executed range a new executionOrder
\* (or clears it) while the synchronizer is suspended at an await; cells
\* with empty content never get a new execution order
KernelSetsMarker(i, m) ==
    /\ pc \in {"command", "settle", "wait"}
    /\ i \in CodeCells
    /\ ~cells[i + 1].blank
    /\ m # cells[i + 1].marker
    /\ cells' = [cells EXCEPT ![i + 1].marker = m]
    /\ kernelChanged' = kernelChanged \cup {i}
    /\ UNCHANGED <<startIndex, stopIndex, timeoutMs, pc,
                   previousExecutionOrders, executionComplete, allComplete, allCompleteOlder,
                   now, startTime, commands, polls, waits, result,
                   toolResponse>>
    /\ UNCHANGED <<varsValidate, varsBody, varsHttp, varsTool, varsNotebook, varsModule, varsConfig>>

SyncStep ==
    \/ Enter
    \/ \E d \in 0 .. MaxCmdDelay : CommandReturns(d)
    \/ Poll
    \/ \E j \in 0 .. MaxJitter : SettleElapses(j)
    \/ \E j \in 0 .. MaxJitter : WaitElapses(j)
    \/ Finish
    \/ \E tool \in SyncTools : ToolReturns(tool)

KernelStep ==
    \E i \in 0 .. MaxCells - 1, m \in 0 .. MaxMarker : KernelSetsMarker(i, m)

NextSync == SyncStep \/ KernelStep

SpecSync == InitSync /\ [][NextSync]_vars

\* the event loop runs every continuation that is ready and every timer
\* fires; nothing is assumed of the kernel
FairSpecSync == SpecSync /\ WF_vars(SyncStep)

(***************************************************************************)
(* Vocabulary of the claims about the synchronizer                         *)
(***************************************************************************)
\* the code cells of the target range [startIndex, stopIndex)
TargetCode ==
    {i \in 0 .. Len(cells) - 1 :
        startIndex <= i /\ i < stopIndex /\ cells[i + 1].kind = "code"}

\* the watch set: the code cells of the range whose content is not blank
Watched == {i \in TargetCode : ~cells[i + 1].blank}

Snapshotted == pc \notin {"idle", "call"} /\ commands # <<>>

AllWatchedChanged ==
    \A i \in Watched : cells[i + 1].marker # previousExecutionOrders[i]

Elapsed == now - startTime

HasReturned == pc \in {"done", "returned"}

(***************************************************************************)
(* C3: at the first poll at which every watched cell has a marker          *)
(* different from its snapshot, the synchronizer becomes Completed         *)
(* whatever earlier polls saw; once Completed it polls no more, starts no  *)
(* further 200 ms wait, returns at its next loop check, and the report     *)
(* carries no warning.                                                     *)
(***************************************************************************)
C3_CompletesAtFirstFullPoll ==
    /\ [][(pc = "loop" /\ ~executionComplete /\ Elapsed < timeoutMs
             /\ AllWatchedChanged)
          => (executionComplete' /\ pc' = "settle")]_vars
    /\ [][executionComplete => polls' = polls /\ waits' = waits]_vars
    /\ [][(pc = "loop" /\ executionComplete) => pc' = "done"]_vars
    /\ [](HasReturned /\ executionComplete => ~result.warning)

\* completion has been seen at a second or later poll, after polls that saw
\* an unchanged marker
C3_Witness ==
    /\ pc = "settle"
    /\ executionComplete
    /\ polls >= 2
    /\ Watched # {}

(***************************************************************************)
(* C4: if the kernel never changes the marker of some watched cell, the    *)
(* synchronizer does not return before the deadline has elapsed, returns   *)
(* at the first loop check at or after the deadline, and the report        *)
(* carries the did-not-complete warning.                                   *)
(***************************************************************************)
StubbornCell == \E i \in Watched : i \notin kernelChanged

C4_DeadlineMarksIncomplete ==
    /\ (HasReturned /\ result.kind = "results" /\ StubbornCell)
           => (Elapsed >= timeoutMs /\ result.warning)
    /\ (pc = "wait" => Elapsed < timeoutMs)

AllTargetBlank ==
    TargetCode # {} /\ \A i \in TargetCode : cells[i + 1].blank

C6_BlankCellsNeverBlock ==
    AllTargetBlank =>
        /\ pc # "wait"
        /\ waits = 0
        /\ polls <= 1
        /\ (polls = 1 => executionComplete)
        /\ (HasReturned => result.kind = "results" /\ ~result.warning)

\* completed on the first poll, before the deadline, with no marker changed
C6_Witness ==
    /\ AllTargetBlank
    /\ pc = "done"
    /\ polls = 1
    /\ executionComplete
    /\ kernelChanged = {}
    /\ now < timeoutMs + SettleDelay

(***************************************************************************)
(* C7: when the synchronizer ends in TimedOut, the enclosing tool call     *)
(* returns a result that is not an error and that contains the             *)
(* did-not-complete warning and every code cell of the range in its        *)
(* current state.                                                          *)
(***************************************************************************)
TimedOut ==
    /\ result.kind = "results"
    /\ ~executionComplete
    /\ ~AllWatchedChanged

C7_TimeoutIsWarnedSuccess ==
    (toolResponse.sent /\ TimedOut) =>
        /\ ~toolResponse.isError
        /\ toolResponse.text.kind = "results"
        /\ toolResponse.text.warning
        /\ toolResponse.text.shown = [i \in TargetCode |-> cells[i + 1].marker]

(***************************************************************************)
(* C8: if the range contains no code cell, no execute command is issued,   *)
(* nothing is polled or awaited, and the 'no code cells' report is         *)
(* returned.                                                               *)
(***************************************************************************)
C8_NoCodeCellsNoKernel ==
    (TargetCode = {} /\ pc \notin {"idle", "call"}) =>
        /\ commands = <<>>
        /\ polls = 0
        /\ waits = 0
        /\ now = 0
        /\ HasReturned
        /\ result = NoCodeCellsReport

\* a non-empty range of markup cells only has returned
C8_Witness ==
    /\ TargetCode = {}
    /\ pc = "done"
    /\ startIndex < stopIndex
    /\ stopIndex <= Len(cells)
    /\ result = NoCodeCellsReport

(***************************************************************************)
(* The bounded body reader: parseRequestBody(req, maxSize, context).       *)
(*                                                                         *)
(* A chunk is a Buffer, here a sequence of bytes: "A" is an ASCII byte,    *)
(* "L" the lead byte and "C" the continuation byte of a two-byte UTF-8     *)
(* character. A string is a sequence of characters: "a", "e'" (the         *)
(* two-byte character) and "FFFD" (the replacement character).             *)
(***************************************************************************)
Bytes == {"A", "L", "C"}

Chunks == UNION {[1 .. n -> Bytes] : n \in 1 .. MaxChunkLen}

\* Buffer.prototype.toString('utf8'): a complete sequence decodes to its
\* character, every byte of an incomplete or invalid one to U+FFFD
RECURSIVE Utf8ToString(_)
Utf8ToString(bytes) ==
    IF bytes = <<>> THEN <<>>
    ELSE IF Head(bytes) = "A" THEN <<"a">> \o Utf8ToString(Tail(bytes))
    ELSE IF Head(bytes) = "L" /\ Len(bytes) >= 2 /\ bytes[2] = "C"
         THEN <<"e'">> \o Utf8ToString(Tail(Tail(bytes)))
    ELSE <<"FFFD">> \o Utf8ToString(Tail(bytes))

\* req.readable: false once the stream has ended, errored or been destroyed
Readable(isEnded, isErrored, isClosed) ==
    ~isEnded /\ ~isErrored /\ ~isClosed

\* cleanup(): if (req.readable) removeAllListeners('data' / 'end' / 'error')
Cleanup(readable) ==
    IF readable THEN listeners \ {"data", "end", "error"} ELSE listeners

\* if (!resolved) { resolved = true; cleanup(); resolve(value) }
safeResolve(value, readable) ==
    IF ~resolved
    THEN /\ resolved' = TRUE
         /\ listeners' = Cleanup(readable)
         /\ promise' = [state |-> "resolved", value |-> value, reason |-> "none"]
         /\ settles' = settles + 1
    ELSE UNCHANGED <<resolved, listeners, promise, settles>>

\* if (!resolved) { resolved = true; cleanup(); reject(error) }
safeReject(reason, readable) ==
    IF ~resolved
    THEN /\ resolved' = TRUE
         /\ listeners' = Cleanup(readable)
         /\ promise' = [state |-> "rejected", value |-> <<>>, reason |-> reason]
         /\ settles' = settles + 1
    ELSE UNCHANGED <<resolved, listeners, promise, settles>>

\* if (resolved) return  -- first statement of the 'data' listener
NeverSettled == FALSE

AlreadySettled == resolved

\* the promise executor: the four listeners are attached
InitBody ==
    /\ maxSize = MaxSize
    /\ body = <<>>
    /\ bodySize = 0
    /\ sizeExceeded = FALSE
    /\ resolved = FALSE
    /\ promise = PendingPromise
    /\ settles = 0
    /\ listeners = {"error", "data", "end", "close"}
    /\ chunksSeen = <<>>
    /\ ended = FALSE
    /\ errored = FALSE
    /\ closed = FALSE
    /\ IdleValidate
    /\ IdleSync
    /\ IdleHttp
    /\ IdleTool
    /\ IdleNotebook
    /\ IdleModule
    /\ IdleConfig

\* req emits 'data' with a chunk; the listener runs if it is still attached
OnData(chunk) ==
    /\ ~ended
    /\ Len(chunksSeen) < MaxChunks
    /\ chunksSeen' = Append(chunksSeen, chunk)
    /\ IF "data" \notin listeners \/ AlreadySettled
       THEN UNCHANGED <<body, bodySize, sizeExceeded, resolved, listeners,
                        promise, settles>>
       ELSE /\ bodySize' = bodySize + Len(chunk)
            /\ IF bodySize' > maxSize
               THEN /\ sizeExceeded' = TRUE
                    /\ IF ~sizeExceeded
                       THEN safeReject("Request too large",
                                       Readable(ended, errored, closed))
                       ELSE UNCHANGED <<resolved, listeners, promise, settles>>
                    /\ UNCHANGED body
               ELSE /\ body' = body \o Utf8ToString(chunk)
                    /\ UNCHANGED <<sizeExceeded, resolved, listeners, promise,
                                   settles>>
    /\ UNCHANGED <<maxSize, ended, errored, closed>>
    /\ UNCHANGED <<varsValidate, varsSync, varsHttp, varsTool, varsNotebook, varsModule, varsConfig>>

\* req emits 'end': if (!sizeExceeded && !resolved) safeResolve(body)
OnEnd ==
    /\ ~ended
    /\ ended' = TRUE
    /\ IF "end" \in listeners /\ ~sizeExceeded /\ ~resolved
       THEN safeResolve(body, Readable(TRUE, errored, closed))
       ELSE UNCHANGED <<resolved, listeners, promise, settles>>
    /\ UNCHANGED <<maxSize, body, bodySize, sizeExceeded, chunksSeen, errored,
                   closed>>
    /\ UNCHANGED <<varsValidate, varsSync, varsHttp, varsTool, varsNotebook, varsModule, varsConfig>>

\* req emits 'error': safeReject('Request stream error')
OnError ==
    /\ ~errored
    /\ errored' = TRUE
    /\ IF "error" \in listeners
       THEN safeReject("Request stream error", Readable(ended, TRUE, closed))
       ELSE UNCHANGED <<resolved, listeners, promise, settles>>
    /\ UNCHANGED <<maxSize, body, bodySize, sizeExceeded, chunksSeen, ended,
                   closed>>
    /\ UNCHANGED <<varsValidate, varsSync, varsHttp, varsTool, varsNotebook, varsModule, varsConfig>>

\* req emits 'close': if (!resolved) safeReject('Request closed by client')
OnClose ==
    /\ ~closed
    /\ closed' = TRUE
    /\ IF "close" \in listeners /\ ~resolved
       THEN safeReject("Request closed by client",
                       Readable(ended, errored, TRUE))
       ELSE UNCHANGED <<resolved, listeners, promise, settles>>
    /\ UNCHANGED <<maxSize, body, bodySize, sizeExceeded, chunksSeen, ended,
                   errored>>
    /\ UNCHANGED <<varsValidate, varsSync, varsHttp, varsTool, varsNotebook, varsModule, varsConfig>>

NextBody ==
    \/ \E chunk \in Chunks : OnData(chunk)
    \/ OnEnd
    \/ OnError
    \/ OnClose

SpecBody == InitBody /\ [][NextBody]_vars

(***************************************************************************)
(* Vocabulary of the claims about the body reader                          *)
(***************************************************************************)
RECURSIVE Flatten(_)
Flatten(chunkSeq) ==
    IF chunkSeq = <<>> THEN <<>>
    ELSE Head(chunkSeq) \o Flatten(Tail(chunkSeq))

\* the bytes of the request body received so far, and their number
Payload == Flatten(chunksSeen)
TotalSize == Len(Payload)

\* the longest prefix of the chunks whose cumulative size is within max
RECURSIVE PrefixWithin(_, _)
PrefixWithin(chunkSeq, room) ==
    IF chunkSeq = <<>> \/ Len(Head(chunkSeq)) > room THEN <<>>
    ELSE <<Head(chunkSeq)>>
             \o PrefixWithin(Tail(chunkSeq), room - Len(Head(chunkSeq)))

\* the number of request bytes a string was decoded from
RECURSIVE SourceBytes(_)
SourceBytes(str) ==
    IF str = <<>> THEN 0
    ELSE (IF Head(str) = "e'" THEN 2 ELSE 1) + SourceBytes(Tail(str))

TooLarge == promise.state = "rejected" /\ promise.reason = "Request too large"

\* the buffer never holds more than max bytes
C9_BufferBounded == SourceBytes(body) <= maxSize

\* a body above max is rejected at the first chunk that exceeds it, and
\* that chunk and the later ones are not appended
C9_ExceedRejects ==
    /\ (TotalSize > maxSize /\ ~errored /\ ~closed) => TooLarge
    /\ TooLarge =>
           /\ TotalSize > maxSize
           /\ SourceBytes(body) = Len(Flatten(PrefixWithin(chunksSeen, maxSize)))
           /\ bodySize = SourceBytes(body)
                           + Len(chunksSeen[Len(PrefixWithin(chunksSeen, maxSize)) + 1])

\* a body within max is accepted
C9_WithinAccepted ==
    /\ (ended /\ TotalSize <= maxSize /\ ~errored /\ ~closed)
           => promise.state = "resolved"
    /\ promise.state = "resolved" => TotalSize <= maxSize

\* an accepted body resolves to the complete payload in arrival order
C9_PayloadComplete ==
    promise.state = "resolved" => promise.value = Utf8ToString(Payload)

(***************************************************************************)
(* C9: for every split of a body into chunks, a body of at most max bytes  *)
(* is accepted and resolves to the complete payload in arrival order; a    *)
(* body above max is rejected as too large at the first chunk that exceeds *)
(* max, that chunk and later ones are not appended, and the buffer never   *)
(* holds more than max bytes.                                              *)
(***************************************************************************)
C9_BoundedBody ==
    /\ C9_BufferBounded
    /\ C9_ExceedRejects
    /\ C9_WithinAccepted
    /\ C9_PayloadComplete

(***************************************************************************)
(* C10: in every interleaving of data, end, error and close the reader     *)
(* settles its promise at most once, exactly once as soon as a terminal    *)
(* event (end, error, close) has occurred, and after that no event changes *)
(* the body, the byte counter or the outcome.                              *)
(***************************************************************************)
C10_SettlesOnce ==
    /\ [](settles <= 1)
    /\ []((settles = 1) <=> (promise.state # "pending"))
    /\ []((settles = 1) <=> resolved)
    /\ []((ended \/ errored \/ closed) => settles = 1)
    /\ [][resolved => /\ body' = body
                      /\ bodySize' = bodySize
                      /\ promise' = promise
                      /\ settles' = settles
                      /\ resolved']_vars

\* the reader was rejected by a stream error, and data, end and close
\* arrived afterwards without effect
C10_Witness ==
    /\ promise.reason = "Request stream error"
    /\ settles = 1
    /\ ended /\ closed
    /\ TotalSize > bodySize

\* a stream error while the reader is unsettled rejects with the
\* stream-error reason
C11_ErrorRejects ==
    [][(~resolved /\ ~errored /\ errored') =>
           /\ promise'.state = "rejected"
           /\ promise'.reason = "Request stream error"]_vars

\* a close before end while the reader is unsettled rejects with the
\* client-closed reason
C11_CloseRejects ==
    [][(~resolved /\ ~ended /\ ~closed /\ closed') =>
           /\ promise'.state = "rejected"
           /\ promise'.reason = "Request closed by client"]_vars

\* a normal end with the size limit not exceeded resolves
C11_EndResolves ==
    [][(~resolved /\ ~ended /\ ended') => promise'.state = "resolved"]_vars

\* ... with the complete payload
C11_EndResolvesPayload ==
    [][(~resolved /\ ~ended /\ ended') =>
           promise'.value = Utf8ToString(Payload)]_vars

\* a resolved reader stays resolved with the same value; in particular a
\* close after end does not reject it
C11_ResolvedStays ==
    [][promise.state = "resolved" => promise' = promise]_vars

(***************************************************************************)
(* C11: the outcome of the body reader is decided by the first terminal    *)
(* event: a stream error before settlement rejects with 'Request stream    *)
(* error', a close before end rejects with 'Request closed by client', a   *)
(* normal end within the size limit resolves with the complete payload,    *)
(* and a close after end does not turn the resolved outcome into a         *)
(* rejection.                                                              *)
(***************************************************************************)
C11_FirstTerminalEvent ==
    /\ C11_ErrorRejects
    /\ C11_CloseRejects
    /\ C11_EndResolves
    /\ C11_EndResolvesPayload
    /\ C11_ResolvedStays

(***************************************************************************)
(* C12: when the reader settles it detaches all the listeners it attached  *)
(* (data, end, error, close): no listener remains after settlement.        *)
(***************************************************************************)
C12_ListenersDetached == resolved => listeners = {}

\* what cleanup() does detach: the data, end and error listeners, and only
\* when the reader settles from the data listener (the stream is readable)
C12_DetachedOnlyWhenReadable ==
    /\ resolved => "close" \in listeners
    /\ [][(~resolved /\ resolved') =>
             listeners' = IF Readable(ended', errored', closed')
                          THEN {"close"}
                          ELSE {"error", "data", "end", "close"}]_vars

(***************************************************************************)
(* The request server: the createServer callback and handleHttpRequest.    *)
(*                                                                         *)
(* The handler runs on the event loop: between two awaits it runs to       *)
(* completion, and the timer callback runs only while the handler is       *)
(* suspended at an await (hpc = "body", "transport") or has finished.      *)
(* The body reader and the protocol transport are the handler's            *)
(* collaborators: the reader settles with one of its outcomes or never,    *)
(* the transport starts a response and returns, throws, or never returns.  *)
(***************************************************************************)
Methods == {"OPTIONS", "POST", "GET"}
Urls == {"/mcp", "/other"}

\* the reasons parseRequestBody rejects with
RejectReasons ==
    {"Request too large", "Request stream error", "Request closed by client"}

\* the id member of a parsed body: absent or null (NullId), or a number
NullId == -1

RequestIds == {NullId} \cup (0 .. MaxRequestId)

\* what awaiting parseRequestBody and JSON.parse(body) can give
BodyOutcomes ==
    [kind : {"rejected"}, reason : RejectReasons]
        \cup {[kind |-> "invalid"]}
        \cup [kind : {"json"}, id : RequestIds]

Reply(status, type, code, message, id, by) ==
    [status |-> status, type |-> type, code |-> code, message |-> message,
     id |-> id, by |-> by]

NoReply == Reply(0, "none", 0, "none", NullId, "none")

\* res.writeHead(status, headers); res.end(payload) -- Node starts the
\* response, or refuses with ERR_HTTP_HEADERS_SENT if one was started
WriteHead(r, reply) ==
    IF r.headersSent
    THEN [r EXCEPT !.late = @ + 1]
    ELSE [r EXCEPT !.headersSent = TRUE, !.written = Append(@, reply)]

\* if (!res.headersSent) { res.writeHead(...); res.end(...) }
WriteUnlessSent(r, reply) ==
    IF ~r.headersSent THEN WriteHead(r, reply) ELSE r

\* timeoutHandle = setTimeout(..., requestTimeoutMs): the timer is armed
NoTimeout == "null"

SetTimeout == "pending"

\* if (timeoutHandle) { clearTimeout(timeoutHandle) }
KeepTimeout(handle) == handle

ClearTimeout(handle) == IF handle = "pending" THEN "cleared" ELSE handle

\* the guard of the timer callback: if (!res.headersSent)
TimeoutAlwaysWrites(r) == TRUE

TimeoutMayWrite(r) == ~r.headersSent

RequestTimeoutReply ==
    Reply(408, "text/plain", 0, "Request timeout", NullId, "timeout")

\* the replies sent before the body is read, in the order of the checks
EarlyReplyMethodFirst(rq) ==
    IF rq.method = "OPTIONS"
    THEN Reply(200, "application/json", 0, "", NullId, "handler")
    ELSE IF rq.method # "POST"
    THEN Reply(405, "text/plain", 0, "Method not allowed", NullId, "handler")
    ELSE IF rq.url # "/mcp"
    THEN Reply(404, "text/plain", 0, "Not Found", NullId, "handler")
    ELSE NoReply

EarlyReply(rq) ==
    IF rq.method = "OPTIONS"
    THEN Reply(200, "application/json", 0, "", NullId, "handler")
    ELSE IF rq.url # "/mcp"
    THEN Reply(404, "text/plain", 0, "Not Found", NullId, "handler")
    ELSE IF rq.method # "POST"
    THEN Reply(405, "text/plain", 0, "Method not allowed", NullId, "handler")
    ELSE NoReply

\* the 400 replies of the two parse stages
ParseErrorReplyInvalidRequest(message) ==
    Reply(400, "application/json", -32600, message, NullId, "handler")

ParseErrorReply(message) ==
    Reply(400, "application/json", -32700, message, NullId, "handler")

\* id: requestBody?.id || null
ErrorId(parsed) ==
    IF parsed.id = NullId \/ parsed.id = 0 THEN NullId ELSE parsed.id

\* the reply of catch (transportError)
TransportErrorReply(parsed) ==
    Reply(500, "application/json", -32603, "Internal error", ErrorId(parsed),
          "handler")

\* the reply of catch (outerError)
InternalServerErrorReply ==
    Reply(500, "text/plain", 0, "Internal Server Error", NullId, "boundary")

\* the reply of the catch of the createServer callback
CallbackErrorReply ==
    Reply(500, "application/json", -32603, "Internal server error", NullId,
          "callback")

\* the response the transport starts for a parsed request
TransportReply ==
    Reply(200, "text/event-stream", 0, "", NullId, "transport")

\* catch (outerError) of handleHttpRequest: answers 500 unless a response
\* was started, and rethrows nothing
OuterBoundarySilent(r, exc) == [res |-> r, exc |-> "none"]

OuterBoundary(r, exc) ==
    [res |-> IF exc # "none"
             THEN WriteUnlessSent(r, InternalServerErrorReply)
             ELSE r,
     exc |-> "none"]

\* the try/catch of the createServer callback around handleHttpRequest
RequestCallback(r, exc) ==
    [res |-> IF exc # "none" THEN WriteUnlessSent(r, CallbackErrorReply)
             ELSE r,
     exc |-> "none"]

\* an exception exc leaves the inner try block of handleHttpRequest: the
\* finally clause, the outer catch and the callback's catch run
Unwind(r, exc) ==
    LET outer == OuterBoundary(r, exc)
    IN  RequestCallback(outer.res, outer.exc)

Raise(what) == [what |-> what, unanswered |-> ~res.headersSent]

\* a request has arrived and the createServer callback is about to run
InitHttp ==
    /\ request \in [method : Methods, url : Urls]
    /\ transport \in {"unset", "set"}
    /\ hpc = "callback"
    /\ timeoutHandle = "null"
    /\ res = NoResponseStarted
    /\ readerStarted = FALSE
    /\ dispatched = FALSE
    /\ requestBody = [kind |-> "none"]
    /\ raised = NoException
    /\ escaped = FALSE
    /\ IdleValidate
    /\ IdleSync
    /\ IdleBody
    /\ IdleTool
    /\ IdleNotebook
    /\ IdleModule
    /\ IdleConfig

\* handleHttpRequest up to its first await: the timer is armed, the early
\* replies are sent, or the body reader is started
HandleHttpRequest ==
    /\ hpc = "callback"
    /\ IF EarlyReply(request) # NoReply
       THEN /\ res' = WriteHead(res, EarlyReply(request))
            /\ timeoutHandle' = ClearTimeout(SetTimeout)
            /\ hpc' = "done"
            /\ UNCHANGED readerStarted
       ELSE /\ timeoutHandle' = SetTimeout
            /\ readerStarted' = TRUE
            /\ hpc' = "body"
            /\ UNCHANGED res
    /\ UNCHANGED <<request, transport, dispatched, requestBody, raised,
                   escaped>>
    /\ UNCHANGED <<varsValidate, varsSync, varsBody, varsTool, varsNotebook, varsModule, varsConfig>>

\* the await of parseRequestBody returns or throws; the handler runs on to
\* its next await or to its end
BodySettles(o) ==
    /\ hpc = "body"
    /\ requestBody' = o
    /\ CASE o.kind = "rejected" ->
              /\ raised' = Raise("body reader")
              /\ res' = WriteUnlessSent(res,
                                        ParseErrorReply("Request body parse error"))
              /\ timeoutHandle' = ClearTimeout(timeoutHandle)
              /\ hpc' = "done"
              /\ UNCHANGED <<dispatched, escaped>>
         [] o.kind = "invalid" ->
              /\ raised' = Raise("JSON.parse")
              /\ res' = WriteUnlessSent(res, ParseErrorReply("Parse error"))
              /\ timeoutHandle' = ClearTimeout(timeoutHandle)
              /\ hpc' = "done"
              /\ UNCHANGED <<dispatched, escaped>>
         [] o.kind = "json" /\ transport # "set" ->
              /\ raised' = Raise("MCP transport not initialized")
              /\ timeoutHandle' = ClearTimeout(timeoutHandle)
              /\ LET after == Unwind(res, "MCP transport not initialized")
                 IN  /\ res' = after.res
                     /\ escaped' = (after.exc # "none")
              /\ hpc' = "done"
              /\ UNCHANGED dispatched
         [] o.kind = "json" /\ transport = "set" ->
              /\ dispatched' = TRUE
              /\ hpc' = "transport"
              /\ UNCHANGED <<raised, res, timeoutHandle, escaped>>
    /\ UNCHANGED <<request, transport, readerStarted>>
    /\ UNCHANGED <<varsValidate, varsSync, varsBody, varsTool, varsNotebook, varsModule, varsConfig>>

\* the transport starts its response on res
TransportReplies ==
    /\ hpc = "transport"
    /\ ~res.headersSent
    /\ res' = WriteHead(res, TransportReply)
    /\ UNCHANGED <<request, transport, hpc, timeoutHandle, readerStarted,
                   dispatched, requestBody, raised, escaped>>
    /\ UNCHANGED <<varsValidate, varsSync, varsBody, varsTool, varsNotebook, varsModule, varsConfig>>

\* transport.handleRequest returns, having started its response
TransportReturns ==
    /\ hpc = "transport"
    /\ res.headersSent
    /\ res.written[1].by = "transport"
    /\ timeoutHandle' = ClearTimeout(timeoutHandle)
    /\ hpc' = "done"
    /\ UNCHANGED <<request, transport, res, readerStarted, dispatched,
                   requestBody, raised, escaped>>
    /\ UNCHANGED <<varsValidate, varsSync, varsBody, varsTool, varsNotebook, varsModule, varsConfig>>

\* transport.handleRequest throws, before or after starting a response or
\* because the response was already started by the timer
TransportThrows ==
    /\ hpc = "transport"
    /\ raised' = Raise("transport error")
    /\ res' = WriteUnlessSent(res, TransportErrorReply(requestBody))
    /\ timeoutHandle' = ClearTimeout(timeoutHandle)
    /\ hpc' = "done"
    /\ UNCHANGED <<request, transport, readerStarted, dispatched,
                   requestBody, escaped>>
    /\ UNCHANGED <<varsValidate, varsSync, varsBody, varsTool, varsNotebook, varsModule, varsConfig>>

\* requestTimeoutMs have elapsed and the timer callback runs
TimerFires ==
    /\ timeoutHandle = "pending"
    /\ timeoutHandle' = "fired"
    /\ res' = IF TimeoutMayWrite(res) THEN WriteHead(res, RequestTimeoutReply)
              ELSE res
    /\ UNCHANGED <<request, transport, hpc, readerStarted, dispatched,
                   requestBody, raised, escaped>>
    /\ UNCHANGED <<varsValidate, varsSync, varsBody, varsTool, varsNotebook, varsModule, varsConfig>>

\* initializeTransport(), called from the listen callback of start()
InitializeTransport ==
    /\ hpc # "idle"
    /\ transport = "unset"
    /\ transport' = "set"
    /\ UNCHANGED <<request, hpc, timeoutHandle, res, readerStarted,
                   dispatched, requestBody, raised, escaped>>
    /\ UNCHANGED <<varsValidate, varsSync, varsBody, varsTool, varsNotebook, varsModule, varsConfig>>

\* stop(): this.transport.close(); this.transport = null
Stop ==
    /\ hpc # "idle"
    /\ transport = "set"
    /\ transport' = "closed"
    /\ UNCHANGED <<request, hpc, timeoutHandle, res, readerStarted,
                   dispatched, requestBody, raised, escaped>>
    /\ UNCHANGED <<varsValidate, varsSync, varsBody, varsTool, varsNotebook, varsModule, varsConfig>>

NextHttp ==
    \/ HandleHttpRequest
    \/ \E o \in BodyOutcomes : BodySettles(o)
    \/ TransportReplies
    \/ TransportReturns
    \/ TransportThrows
    \/ TimerFires
    \/ InitializeTransport
    \/ Stop

SpecHttp == InitHttp /\ [][NextHttp]_vars

\* the handler's own steps are taken and an armed timer fires; the body
\* stream and the transport need not ever make a step
FairSpecHttp ==
    SpecHttp /\ WF_vars(HandleHttpRequest) /\ WF_vars(TimerFires)

(***************************************************************************)
(* Vocabulary of the claims about the request server                       *)
(***************************************************************************)
Accepted == hpc \notin {"idle", "callback"}
Answered == res.written # <<>>
TimerFired == timeoutHandle = "pending" /\ timeoutHandle' = "fired"
EarlyRejected ==
    request.method = "OPTIONS" \/ request.url # "/mcp" \/ request.method # "POST"
ParseFailed == raised.what \in {"body reader", "JSON.parse"}
ParseMessage ==
    IF raised.what = "body reader" THEN "Request body parse error"
    ELSE "Parse error"
\* the only response of the request is the 400 that carries -32700
ParseErrorWritten ==
    /\ Len(res.written) = 1
    /\ res.written[1].status = 400
    /\ res.written[1].type = "application/json"
    /\ res.written[1].code = -32700
    /\ res.written[1].message = ParseMessage
    /\ res.written[1].id = NullId

(***************************************************************************)
(* C13: every request the server accepts is eventually answered, whatever  *)
(* the body stream does (ends, fails, never ends) and whatever the         *)
(* transport does (returns, throws, never returns): by the handler, by an  *)
(* error boundary or by the per-request timeout.                           *)
(***************************************************************************)
C13_EventuallyAnswered == (hpc = "callback") ~> Answered

\* the body never arrived and the timeout answered
C13_Witness ==
    /\ hpc = "body"
    /\ res.written = <<RequestTimeoutReply>>

(***************************************************************************)
(* C14: at most one response is started per request, and no writeHead is   *)
(* made on a response that was already started, across the early replies,  *)
(* the parse-error replies, the transport's reply, the 500 replies of the  *)
(* error boundaries and the 408 of the timer, in every interleaving of the *)
(* timer with the handler.                                                 *)
(***************************************************************************)
C14_AtMostOneResponse ==
    /\ Len(res.written) <= 1
    /\ res.late = 0

\* the timer answered first; the transport failed afterwards and the
\* handler wrote nothing more
C14_Witness ==
    /\ timeoutHandle = "fired"
    /\ hpc = "done"
    /\ raised.what = "transport error"
    /\ res.written = <<RequestTimeoutReply>>

(***************************************************************************)
(* C15: when the deadline elapses while the request is being handled, a    *)
(* 408 is written if no headers were sent and nothing is written if they   *)
(* were; once the handler has finished the timer is cancelled, and no 408  *)
(* (nor anything else) is written for the request afterwards.              *)
(***************************************************************************)
C15_TimeoutDiscipline ==
    /\ [][TimerFired =>
             /\ hpc \in {"body", "transport"}
             /\ IF ~res.headersSent
                THEN /\ res'.written = <<RequestTimeoutReply>>
                     /\ res'.headersSent
                ELSE res' = res]_vars
    /\ [](hpc = "done" => timeoutHandle # "pending")
    /\ [][hpc = "done" => res' = res]_vars

\* the deadline elapsed after the transport had started its response:
\* nothing was written
C15_Witness ==
    /\ timeoutHandle = "fired"
    /\ res.written = <<TransportReply>>

(***************************************************************************)
(* C16: an OPTIONS request (any path), a request to a path other than /mcp *)
(* and a request to /mcp with a method other than POST are answered before *)
(* the body is parsed: the body reader is never started and the transport  *)
(* never invoked; the path is checked before the method (404, then 405).   *)
(***************************************************************************)
C16_EarlyRejections ==
    (Accepted /\ EarlyRejected) =>
        /\ hpc = "done"
        /\ ~readerStarted
        /\ ~dispatched
        /\ requestBody.kind = "none"
        /\ Len(res.written) = 1
        /\ res.written[1].status =
               IF request.method = "OPTIONS" THEN 200
               ELSE IF request.url # "/mcp" THEN 404
               ELSE 405

\* a GET of another path is answered 404, not 405
C16_Witness ==
    /\ request = [method |-> "GET", url |-> "/other"]
    /\ hpc = "done"
    /\ res.written[1].status = 404

(***************************************************************************)
(* C17 as stated: a body-reader failure (too large, stream error, client   *)
(* disconnect) or a body that is not valid JSON produces a parse-error     *)
(* response with code -32700; the transport is never invoked and no        *)
(* exception leaves handleHttpRequest.                                     *)
(***************************************************************************)
C17_ParseErrorAnswered ==
    ParseFailed =>
        /\ ParseErrorWritten
        /\ ~dispatched
        /\ ~escaped

(***************************************************************************)
(* C17 as the code has it: the parse-error response with code -32700 is    *)
(* produced unless a response was already started when the failure came    *)
(* (the 408 of the timer); then nothing more is written. In both cases the *)
(* transport is never invoked and no exception leaves handleHttpRequest.   *)
(***************************************************************************)
C17_ParseErrorUnlessAnswered ==
    ParseFailed =>
        /\ hpc = "done"
        /\ IF raised.unanswered THEN ParseErrorWritten
           ELSE res.written = <<RequestTimeoutReply>>
        /\ res.late = 0
        /\ ~dispatched
        /\ ~escaped

\* the client disconnected and the request was answered with -32700
C17_Witness ==
    /\ raised.what = "body reader"
    /\ requestBody.kind = "rejected"
    /\ requestBody.reason = "Request closed by client"
    /\ Len(res.written) = 1
    /\ res.written[1].status = 400
    /\ res.written[1].code = -32700

(***************************************************************************)
(* C19: if a stage that follows the parsing throws while no response has   *)
(* been written (the transport is not initialized, the transport throws),  *)
(* a 500 internal-error response is written and the exception does not     *)
(* leave the server's request callback.                                    *)
(***************************************************************************)
C19_ErrorBoundary ==
    (raised.what \in {"MCP transport not initialized", "transport error"}
        /\ raised.unanswered) =>
        /\ hpc = "done"
        /\ Len(res.written) = 1
        /\ res.written[1].status = 500
        /\ res.late = 0
        /\ ~escaped

\* a parsed request arrived while the transport was not initialized
C19_Witness ==
    /\ raised.what = "MCP transport not initialized"
    /\ transport = "unset"
    /\ res.written = <<InternalServerErrorReply>>
    /\ ~escaped

(***************************************************************************)
(* The tool dispatcher: the call-tool handler registered by                *)
(* setupToolHandlers, validateToolParams and handleToolCall.               *)
(*                                                                         *)
(* An exception is [class, code, message]; a message is its template, the  *)
(* tool name it embeds (if any) and the numbers it embeds.                 *)
(***************************************************************************)
\* the cases of the switch of handleToolCall
DispatchTable ==
    {"get_notebook_info", "get_notebook_cells", "insert_notebook_cells",
     "replace_notebook_cells", "modify_notebook_cell_content",
     "execute_notebook_cells", "delete_notebook_cells", "save_notebook",
     "open_notebook"}

\* the names a client may send: the tools of the table, the two tools that
\* are declared in the manifest without a case of the switch, and a name
\* that is declared nowhere
ToolNames ==
    DispatchTable \cup {"restart_kernel", "interrupt_kernel", "no_such_tool"}

\* the tools whose manifest entry has an inputSchema
SchemaTools ==
    {"insert_notebook_cells", "replace_notebook_cells",
     "modify_notebook_cell_content", "execute_notebook_cells",
     "delete_notebook_cells", "open_notebook"}

\* what the awaited host call of a handler does
HostOutcomes == {"returns", "throws Error", "throws value"}

\* the first argument of ErrorFactory.noActiveNotebook in each handler
ServiceName(toolName) ==
    CASE toolName = "get_notebook_cells" -> "getCells"
      [] toolName = "insert_notebook_cells" -> "insertCells"
      [] toolName = "replace_notebook_cells" -> "replaceCells"
      [] toolName = "modify_notebook_cell_content" -> "modifyCellContent"
      [] toolName = "execute_notebook_cells" -> "executeCells"
      [] toolName = "delete_notebook_cells" -> "deleteCells"
      [] toolName = "save_notebook" -> "saveNotebook"
      [] OTHER -> "none"

\* the host call a handler awaits once its checks have passed
HostApi(toolName) ==
    CASE toolName \in {"get_notebook_info", "get_notebook_cells"} ->
             "notebook.getCells"
      [] toolName = "execute_notebook_cells" -> "commands.executeCommand"
      [] toolName = "save_notebook" -> "workspace.save"
      [] toolName = "open_notebook" -> "workspace.openNotebookDocument"
      [] OTHER -> "workspace.applyEdit"

RooNotebookError(code, template, name, args) ==
    [class |-> "RooNotebookError", code |-> code,
     message |-> [template |-> template, name |-> name, args |-> args]]

\* ErrorFactory.validationError(`Invalid parameters for ${toolName}: ...`)
validationError(toolName) ==
    RooNotebookError("VALIDATION_ERROR", "Invalid parameters for ", toolName,
                     <<>>)

\* ErrorFactory.toolError(toolName, `Unknown tool: ${toolName}`)
toolErrorNameless(toolName) ==
    RooNotebookError("MCP_TOOL_ERROR", "Unknown tool", "none", <<>>)

toolError(toolName) ==
    RooNotebookError("MCP_TOOL_ERROR", "Unknown tool: ", toolName, <<>>)

\* the exception object of an error of the validators and handlers, with
\* the message its factory builds
AsException(err, isRange) ==
    IF err.code = "NO_ACTIVE_NOTEBOOK"
    THEN RooNotebookError(err.code, "No active notebook editor found",
                          "none", <<>>)
    ELSE IF isRange
    THEN RooNotebookError(err.code, "Range s-e is invalid for n cells",
                          "none",
                          <<err.startIndex, err.stopIndex, err.cellCount>>)
    ELSE RooNotebookError(err.code, "Index i is out of bounds (0-max)",
                          "none", <<err.cellIndex, err.cellCount - 1>>)

\* what the host throws: an Error object, or a value that is not an Error
HostException(outcome_) ==
    IF outcome_ = "throws Error"
    THEN [class |-> "Error", code |-> "NONE",
          message |-> [template |-> "host failure", name |-> "none",
                       args |-> <<>>]]
    ELSE [class |-> "value", code |-> "NONE",
          message |-> [template |-> "host failure value", name |-> "none",
                       args |-> <<>>]]

\* validateToolParams(toolName, args): no schema, args as-is; else
\* schema.parse(args), whose indices are integers with minimum 0
ValidateToolParams(toolName, args) ==
    IF toolName \notin SchemaTools THEN NoExc
    ELSE IF /\ args.wellFormed
            /\ toolName \in RangeTools => (args.a >= 0 /\ args.b >= 0)
            /\ toolName \in IndexTools => args.a >= 0
         THEN NoExc
         ELSE validationError(toolName)

\* the outcome of handleToolCall: the text it returns or the exception it
\* throws, and the host calls it made
Threw(exc, calls) == [thrown |-> TRUE, exc |-> exc, text |-> NoMessage,
                      calls |-> calls]

ReturnedText(template, name, calls) ==
    [thrown |-> FALSE, exc |-> NoExc,
     text |-> [template |-> template, name |-> name, args |-> <<>>],
     calls |-> calls]

\* the awaited host call of a handler, made after the calls in before
AwaitHost(toolName, before, host) ==
    IF host = "returns"
    THEN ReturnedText("success", toolName, Append(before, HostApi(toolName)))
    ELSE Threw(HostException(host), Append(before, HostApi(toolName)))

\* handleToolCall(toolName, args) with the editor state it finds
HandleToolCall(toolName, args, active, count, host) ==
    LET invalid == ValidateToolParams(toolName, args)
    IN  IF invalid # NoExc THEN Threw(invalid, <<>>)
        ELSE IF toolName \notin DispatchTable
        THEN Threw(toolError(toolName), <<>>)
        ELSE IF toolName = "open_notebook"
        THEN AwaitHost(toolName, <<>>, host)
        ELSE IF toolName = "get_notebook_info" /\ ~active
        THEN ReturnedText("No active notebook found.", "none", <<>>)
        ELSE IF ~active
        THEN Threw(AsException(noActiveNotebook(ServiceName(toolName)), FALSE),
                   <<>>)
        ELSE IF toolName \in RangeTools
        THEN LET v == RangeValidator(args.a, args.b, count, toolName)
             IN  IF v.thrown
                 THEN Threw(AsException(v.error, TRUE), <<"notebook.getCells">>)
                 ELSE AwaitHost(toolName, <<"notebook.getCells">>, host)
        ELSE IF toolName \in IndexTools
        THEN LET v == IndexValidator(args.a, count, toolName)
             IN  IF v.thrown
                 THEN Threw(AsException(v.error, FALSE), <<"notebook.getCells">>)
                 ELSE AwaitHost(toolName, <<"notebook.getCells">>, host)
        ELSE AwaitHost(toolName, <<>>, host)

\* `Error [${error instanceof Error ? error.constructor.name : 'Unknown'}]:
\*  ${error instanceof Error ? error.message : String(error)}`
ErrorText(exc) ==
    [prefix |-> "Error",
     class |-> IF exc.class = "value" THEN "Unknown" ELSE exc.class,
     message |-> exc.message]

ResultText(text) == [prefix |-> "none", class |-> "none", message |-> text]

\* the try / catch of the call-tool handler around handleToolCall
CallToolHandlerOwnErrorsOnly(r) ==
    IF ~r.thrown
    THEN [escaped |-> FALSE,
          result |-> [returned |-> TRUE, isError |-> FALSE,
                      content |-> <<[type |-> "text",
                                     text |-> ResultText(r.text)]>>]]
    ELSE IF r.exc.class = "RooNotebookError"
    THEN [escaped |-> FALSE,
          result |-> [returned |-> TRUE, isError |-> TRUE,
                      content |-> <<[type |-> "text",
                                     text |-> ErrorText(r.exc)]>>]]
    ELSE [escaped |-> TRUE, result |-> NoToolResult]

CallToolHandler(r) ==
    IF ~r.thrown
    THEN [escaped |-> FALSE,
          result |-> [returned |-> TRUE, isError |-> FALSE,
                      content |-> <<[type |-> "text",
                                     text |-> ResultText(r.text)]>>]]
    ELSE [escaped |-> FALSE,
          result |-> [returned |-> TRUE, isError |-> TRUE,
                      content |-> <<[type |-> "text",
                                     text |-> ErrorText(r.exc)]>>]]

\* the arguments of a call: the indices matter for the range and index tools
ToolRequests ==
    {rq \in [name : ToolNames, wellFormed : BOOLEAN, a : ArgValues,
             b : ArgValues] :
        /\ rq.name \notin RangeTools => rq.b = 0
        /\ rq.name \notin (RangeTools \cup IndexTools) => rq.a = 0}

\* the server is connected and the editor is in any of its states
InitTool ==
    /\ activeNotebook \in BOOLEAN
    /\ cellCount \in 0 .. MaxCells
    /\ call = NoCall
    /\ outcome = Returned(0, 0)
    /\ IdleTool
    /\ IdleNotebook
    /\ IdleModule
    /\ IdleConfig
    /\ IdleSync
    /\ IdleBody
    /\ IdleHttp

\* a tools/call request is handled: the call-tool handler with the
\* handleToolCall it awaits
CallTool(rq, host) ==
    /\ hpc = "idle" /\ pc = "idle" /\ listeners = {}
    /\ LET r == HandleToolCall(rq.name, rq, activeNotebook, cellCount, host)
           h == CallToolHandler(r)
       IN  /\ toolRequest' = rq
           /\ toolFailure' = r.exc
           /\ hostCalls' = r.calls
           /\ callToolResult' = h.result
           /\ toolEscaped' = h.escaped
    /\ UNCHANGED <<varsValidate, varsSync, varsBody, varsHttp, varsNotebook, varsModule, varsConfig>>

NextTool ==
    \/ \E rq \in ToolRequests, host \in HostOutcomes : CallTool(rq, host)
    \/ \E n \in 0 .. MaxCells : DocumentChanges(n)
    \/ EditorCloses

SpecTool == InitTool /\ [][NextTool]_vars

(***************************************************************************)
(* Vocabulary of the claims about the dispatcher                           *)
(***************************************************************************)
ToolCalled == toolRequest.name # "none"
ToolFailed == toolFailure # NoExc
IsToolError ==
    /\ callToolResult.returned
    /\ callToolResult.isError
    /\ Len(callToolResult.content) = 1
    /\ callToolResult.content[1].type = "text"
    /\ callToolResult.content[1].text.prefix = "Error"

(***************************************************************************)
(* C18: for every tool call whose body was parsed, any failure raised      *)
(* while handling it (schema validation, range or index out of bounds, no  *)
(* active notebook, unknown tool, an exception of the host) is returned as *)
(* a tool result {content: [text], isError: true}; it never leaves the     *)
(* call-tool handler as an exception.                                      *)
(***************************************************************************)
C18_FailuresAreToolResults ==
    ToolCalled =>
        /\ ~toolEscaped
        /\ callToolResult.returned
        /\ ToolFailed <=> callToolResult.isError
        /\ ToolFailed =>
               /\ IsToolError
               /\ callToolResult.content[1].text.message = toolFailure.message
               /\ callToolResult.content[1].text.class \in
                      {"RooNotebookError", "Error", "Unknown"}

\* the host threw while a valid delete was applied, and the call returned
\* a tool error
C18_Witness ==
    /\ toolRequest.name = "delete_notebook_cells"
    /\ toolFailure.class = "Error"
    /\ hostCalls = <<"notebook.getCells", "workspace.applyEdit">>
    /\ IsToolError

(***************************************************************************)
(* C20: a call whose name is not in the dispatcher's table returns a tool  *)
(* error (isError true) whose text carries the name, and no call is made   *)
(* on the host's document / kernel API.                                    *)
(***************************************************************************)
C20_UnknownTool ==
    (ToolCalled /\ toolRequest.name \notin DispatchTable) =>
        /\ IsToolError
        /\ callToolResult.content[1].text.message.template = "Unknown tool: "
        /\ callToolResult.content[1].text.message.name = toolRequest.name
        /\ hostCalls = <<>>
        /\ ~toolEscaped

\* a name that is declared nowhere, sent with malformed arguments
C20_Witness ==
    /\ toolRequest.name = "no_such_tool"
    /\ ~toolRequest.wellFormed
    /\ IsToolError
    /\ callToolResult.content[1].text.message.name = "no_such_tool"

\* the list-tools handler: the name of every entry of
\* packageJSON.contributes.languageModelTools
ListedTools ==
    {"get_notebook_info", "get_notebook_cells", "insert_notebook_cells",
     "replace_notebook_cells", "modify_notebook_cell_content",
     "execute_notebook_cells", "delete_notebook_cells", "save_notebook",
     "open_notebook", "restart_kernel", "interrupt_kernel"}

(***************************************************************************)
(* C21: every tool the tool-list request returns (every entry of           *)
(* languageModelTools, restart_kernel and interrupt_kernel included) is    *)
(* resolved by the dispatcher to its handler: calling a listed tool with   *)
(* valid arguments never yields the 'Unknown tool' error.                  *)
(***************************************************************************)
C21_ListedToolsResolved ==
    (ToolCalled /\ toolRequest.name \in ListedTools
        /\ toolRequest.wellFormed
        /\ ValidateToolParams(toolRequest.name, toolRequest) = NoExc) =>
        /\ toolFailure.code # "MCP_TOOL_ERROR"
        /\ toolFailure.message.template # "Unknown tool: "

(***************************************************************************)
(* NotebookService: the cells of the host's document and the cell          *)
(* definitions of a request                                                *)
(***************************************************************************)
Languages == {"python", "r"}

\* a markup cell, or a code cell of some language
CellShapes ==
    {[kind |-> "Markup", languageId |-> "markdown"]} \cup
    {[kind |-> "Code", languageId |-> l] : l \in Languages}

\* new vscode.NotebookCellData(kind, value, languageId)
NotebookCellData(kind, value, languageId) ==
    [kind |-> kind, languageId |-> languageId, content |-> value]

\* the documents the editor may show; the cell at index i - 1 holds content i
Notebooks ==
    UNION {{[i \in 1 .. n |->
                NotebookCellData(f[i].kind, i, f[i].languageId)] :
            f \in [1 .. n -> CellShapes]} : n \in 0 .. MaxCells}

\* a property a cell definition or a request leaves undefined
Omitted == "omitted"

\* { content, cell_type?, language_id? } without its content
DefinitionShapes ==
    [cell_type : {"code", "markdown", Omitted}, language_id : {Omitted, "r"}]

\* the i-th definition of a request holds content 10 + i
CellDefinition(shape, i) ==
    [content |-> 10 + i, cell_type |-> shape.cell_type,
     language_id |-> shape.language_id]

\* the cells arrays of a request: none, one or two definitions
CellDefinitions ==
    UNION {{[i \in 1 .. k |-> CellDefinition(f[i], i)] :
            f \in [1 .. k -> DefinitionShapes]} : k \in {0, 1, 2}}

Max(x, y) == IF x > y THEN x ELSE y

\* typeof insertPosition === "number"
\*     ? Math.min(Math.max(0, insertPosition), notebook.cellCount)
\*     : notebook.cellCount
InsertPositionUnfloored(insertPosition, hasPosition, count) ==
    IF hasPosition THEN Min(insertPosition, count) ELSE count

InsertPosition(insertPosition, hasPosition, count) ==
    IF hasPosition THEN Min(Max(0, insertPosition), count) ELSE count

\* the index of the first code cell of cells, 0 when there is none
FirstCodeCell(cells_) ==
    IF \E i \in 1 .. Len(cells_) : cells_[i].kind = "Code"
    THEN CHOOSE i \in 1 .. Len(cells_) :
             /\ cells_[i].kind = "Code"
             /\ \A j \in 1 .. (i - 1) : cells_[j].kind # "Code"
    ELSE 0

\* language_id || "": an omitted language_id is the empty string
OrEmpty(language_id) == IF language_id = Omitted THEN "" ELSE language_id

\* insertCells, the callback of cells.map: the cell data of one definition
InsertCellData(cellDefinition, existing) ==
    LET cellKind == IF cellDefinition.cell_type = "code" THEN "Code"
                    ELSE "Markup"
        given == IF cellKind = "Markup" THEN "markdown"
                 ELSE OrEmpty(cellDefinition.language_id)
        first == FirstCodeCell(existing)
        found == IF first = 0 THEN given ELSE existing[first].languageId
        cellLanguageId ==
            IF cellKind = "Code" /\ given = "" /\ Len(existing) > 0
            THEN IF found = "" THEN "python" ELSE found
            ELSE given
    IN  NotebookCellData(cellKind, cellDefinition.content, cellLanguageId)

\* replaceCells, the callback of cells.map for the definition at 0-based
\* index i - 1: its cell data, or the validation error it throws
ReplaceCellDataNoRangeFallback(cellDefinition, i, cellsToReplace) ==
    LET peer == IF i <= Len(cellsToReplace) THEN i ELSE 1
        cellKind ==
            IF cellDefinition.cell_type # Omitted
            THEN IF cellDefinition.cell_type = "code" THEN "Code"
                 ELSE "Markup"
            ELSE cellsToReplace[peer].kind
        languageId ==
            IF cellKind = "Markup" THEN "markdown"
            ELSE IF OrEmpty(cellDefinition.language_id) # ""
            THEN cellDefinition.language_id
            ELSE IF i <= Len(cellsToReplace)
                    /\ cellsToReplace[i].kind = "Code"
            THEN cellsToReplace[i].languageId
            ELSE "python"
    IN  [thrown |-> /\ cellKind = "Markup"
                    /\ cellDefinition.language_id \notin {Omitted, "markdown"},
         data |-> NotebookCellData(cellKind, cellDefinition.content,
                                   languageId)]

ReplaceCellData(cellDefinition, i, cellsToReplace) ==
    LET peer == IF i <= Len(cellsToReplace) THEN i ELSE 1
        cellKind ==
            IF cellDefinition.cell_type # Omitted
            THEN IF cellDefinition.cell_type = "code" THEN "Code"
                 ELSE "Markup"
            ELSE cellsToReplace[peer].kind
        firstCodeCell == FirstCodeCell(cellsToReplace)
        languageId ==
            IF cellKind = "Markup" THEN "markdown"
            ELSE IF OrEmpty(cellDefinition.language_id) # ""
            THEN cellDefinition.language_id
            ELSE IF i <= Len(cellsToReplace)
                    /\ cellsToReplace[i].kind = "Code"
            THEN cellsToReplace[i].languageId
            ELSE IF firstCodeCell # 0
                    /\ cellsToReplace[firstCodeCell].languageId # ""
            THEN cellsToReplace[firstCodeCell].languageId
            ELSE "python"
    IN  [thrown |-> /\ cellKind = "Markup"
                    /\ cellDefinition.language_id \notin {Omitted, "markdown"},
         data |-> NotebookCellData(cellKind, cellDefinition.content,
                                   languageId)]

\* existingCells.slice(startIndex, stopIndex), as 0-based indices
Slice(cells_, start, stop) ==
    SubSeq(cells_, Min(start, Len(cells_)) + 1, Min(stop, Len(cells_)))

\* the host's application of NotebookEdit.insertCells / replaceCells /
\* deleteCells: the cells of [start, stop) give way to the new cells
SpliceReversed(cells_, start, stop, newCells) ==
    SubSeq(cells_, 1, Min(start, Len(cells_)))
        \o [i \in 1 .. Len(newCells) |-> newCells[Len(newCells) + 1 - i]]
        \o SubSeq(cells_, Min(stop, Len(cells_)) + 1, Len(cells_))

Splice(cells_, start, stop, newCells) ==
    SubSeq(cells_, 1, Min(start, Len(cells_)))
        \o newCells
        \o SubSeq(cells_, Min(stop, Len(cells_)) + 1, Len(cells_))

\* showCell(cell, maxOutputSize): the index, type, language and content
\* the text of a cell carries
showCell(cell, index) ==
    [index |-> index,
     cellType |-> IF cell.kind = "Markup" THEN "markdown" ELSE "code",
     languageId |-> cell.languageId,
     content |-> cell.content]

\* ErrorFactory.validationError(message, context) of the service
serviceValidationError(message) ==
    RooNotebookError("VALIDATION_ERROR", message, "none", <<>>)

Text(template, args) ==
    [template |-> template, args |-> args, execution |-> "none",
     shown |-> <<>>]

(***************************************************************************)
(* NotebookService: the operations. Each operator is the part of an        *)
(* operation that runs before its first await of the host: the handler     *)
(* it leaves behind and the edit it asks the host to apply.                *)
(***************************************************************************)
Entered(rq) == [NoHandler EXCEPT !.rq = rq]

Fail(h, exc) == [h EXCEPT !.pc = "thrown", !.exc = exc]

Return(h, text) == [h EXCEPT !.pc = "returned", !.text = text]

Done(h) == [h |-> h, edits |-> <<>>]

\* const existingCells = notebook.getCells(), at document version ver
Read(h, doc, ver) == [h EXCEPT !.existingCells = doc, !.readVersion = ver]

\* await vscode.workspace.applyEdit(workspaceEdit)
ApplyEdit(h, c, start, stop, newCells, ver) ==
    [h |-> [h EXCEPT !.pc = "applyEdit", !.startIndex = start,
                     !.stopIndex = stop, !.cellDataArray = newCells,
                     !.calls = Append(@, "workspace.applyEdit")],
     edits |-> <<[by |-> c, start |-> start, stop |-> stop,
                  cells |-> newCells, version |-> ver]>>]

CountKind(cells_, kind) ==
    Cardinality({i \in 1 .. Len(cells_) : cells_[i].kind = kind})

getNotebookInfo(c, rq, active, doc, ver) ==
    IF ~active
    THEN Done(Return(Entered(rq), Text("No active notebook found.", <<>>)))
    ELSE Done(Return(Read(Entered(rq), doc, ver),
                     Text("Notebook Information",
                          <<Len(doc), CountKind(doc, "Markup"),
                            CountKind(doc, "Code")>>)))

getCellsSaving(c, rq, active, doc, ver) ==
    IF ~active
    THEN Done(Fail(Entered(rq), AsException(noActiveNotebook("getCells"), FALSE)))
    ELSE Done(Return([Read(Entered(rq), doc, ver)
                         EXCEPT !.calls = <<"workspace.save">>],
                     [Text("Notebook contains n cells", <<Len(doc)>>)
                         EXCEPT !.shown = [i \in 1 .. Len(doc) |->
                                              showCell(doc[i], i - 1)]]))

getCells(c, rq, active, doc, ver) ==
    IF ~active
    THEN Done(Fail(Entered(rq), AsException(noActiveNotebook("getCells"), FALSE)))
    ELSE IF Len(doc) = 0
    THEN Done(Return(Read(Entered(rq), doc, ver),
                     Text("The notebook is empty", <<>>)))
    ELSE Done(Return(Read(Entered(rq), doc, ver),
                     [Text("Notebook contains n cells", <<Len(doc)>>)
                         EXCEPT !.shown = [i \in 1 .. Len(doc) |->
                                              showCell(doc[i], i - 1)]]))

insertCells(c, rq, active, doc, ver) ==
    IF ~active
    THEN Done(Fail(Entered(rq),
                   AsException(noActiveNotebook("insertCells"), FALSE)))
    ELSE IF Len(rq.cells) = 0
    THEN Done(Fail(Entered(rq),
                   serviceValidationError(
                       "cells array is required and must not be empty")))
    ELSE LET position == InsertPosition(rq.a, rq.hasPosition, Len(doc))
             cellDataArray == [i \in 1 .. Len(rq.cells) |->
                                  InsertCellData(rq.cells[i], doc)]
         IN  ApplyEdit(Read(Entered(rq), doc, ver), c, position, position,
                       cellDataArray, ver)

\* replaceCells with the callback validate, which returns the range and the
\* cell definitions or throws
replaceCells(c, rq, active, doc, ver, validate, definitions) ==
    IF ~active
    THEN Done(Fail(Entered(rq),
                   AsException(noActiveNotebook("replaceCells"), FALSE)))
    ELSE LET h == [Read(Entered(rq), doc, ver) EXCEPT !.validated = TRUE]
         IN  IF validate.thrown
             THEN Done(Fail(h, AsException(validate.error,
                                           rq.name \in RangeTools)))
             ELSE LET cellsToReplace == Slice(doc, validate.startIndex,
                                              validate.stopIndex)
                      made == [i \in 1 .. Len(definitions) |->
                                  ReplaceCellData(definitions[i], i,
                                                  cellsToReplace)]
                  IN  IF \E i \in 1 .. Len(made) : made[i].thrown
                      THEN Done(Fail(h, serviceValidationError(
                               "language_id must be 'markdown' for markdown cells")))
                      ELSE ApplyEdit(h, c, validate.startIndex,
                                     validate.stopIndex,
                                     [i \in 1 .. Len(made) |-> made[i].data],
                                     ver)

\* cells: [{ content }]
ModifyDefinitionsMarkdown(content) ==
    <<[content |-> content, cell_type |-> "markdown", language_id |-> Omitted]>>

ModifyDefinitions(content) ==
    <<[content |-> content, cell_type |-> Omitted, language_id |-> Omitted]>>

modifyCellContent(c, rq, active, doc, ver) ==
    IF ~active
    THEN Done(Fail(Entered(rq),
                   AsException(noActiveNotebook("modifyCellContent"), FALSE)))
    ELSE replaceCells(c, rq, active, doc, ver,
                      IndexValidator(rq.a, Len(doc), rq.name),
                      ModifyDefinitions(rq.b))

ExecuteNotebookCellsWholeNotebook(h, result_, cells_, start, stop) ==
    LET cellsToExecute == Slice(cells_, start, stop)
        codeCells == SelectSeq(cellsToExecute, LAMBDA cell : cell.kind = "Code")
    IN  IF Len(codeCells) = 0
        THEN Return(h, [result_ EXCEPT
                 !.execution = "No code cells found in the specified range"])
        ELSE Return([h EXCEPT !.calls = Append(@, "notebook.cell.execute"),
                              !.command = [issued |-> TRUE, start |-> 0,
                                           end |-> Len(cells_),
                                           cellCount |-> Len(cells_)]],
                    [result_ EXCEPT
                        !.execution = "Cell Execution Results",
                        !.shown = [i \in 1 .. Len(codeCells) |->
                                      showCell(codeCells[i], 0)]])

\* executeNotebookCells(cells, startIndex, stopIndex) after the text result:
\* the command goes to the host only when the range holds a code cell
ExecuteNotebookCells(h, result_, cells_, start, stop) ==
    LET cellsToExecute == Slice(cells_, start, stop)
        codeCells == SelectSeq(cellsToExecute, LAMBDA cell : cell.kind = "Code")
    IN  IF Len(codeCells) = 0
        THEN Return(h, [result_ EXCEPT
                 !.execution = "No code cells found in the specified range"])
        ELSE Return([h EXCEPT !.calls = Append(@, "notebook.cell.execute"),
                              !.command = [issued |-> TRUE, start |-> start,
                                           end |-> stop,
                                           cellCount |-> Len(cells_)]],
                    [result_ EXCEPT
                        !.execution = "Cell Execution Results",
                        !.shown = [i \in 1 .. Len(codeCells) |->
                                      showCell(codeCells[i], 0)]])

executeCellsBeforeValidation(c, rq, active, doc, ver) ==
    IF ~active
    THEN Done(Fail(Entered(rq),
                   AsException(noActiveNotebook("executeCells"), FALSE)))
    ELSE LET h == [Read(Entered(rq), doc, ver) EXCEPT !.validated = TRUE]
             validate == RangeValidator(rq.a, rq.b, Len(doc), rq.name)
         IN  IF validate.thrown
             THEN Done(Fail([h EXCEPT !.calls = <<"notebook.cell.execute">>],
                            AsException(validate.error, TRUE)))
             ELSE Done(ExecuteNotebookCells(
                           [h EXCEPT !.startIndex = validate.startIndex,
                                     !.stopIndex = validate.stopIndex],
                           Text("Cell Execution", <<>>), doc,
                           validate.startIndex, validate.stopIndex))

executeCells(c, rq, active, doc, ver) ==
    IF ~active
    THEN Done(Fail(Entered(rq),
                   AsException(noActiveNotebook("executeCells"), FALSE)))
    ELSE LET h == [Read(Entered(rq), doc, ver) EXCEPT !.validated = TRUE]
             validate == RangeValidator(rq.a, rq.b, Len(doc), rq.name)
         IN  IF validate.thrown
             THEN Done(Fail(h, AsException(validate.error, TRUE)))
             ELSE Done(ExecuteNotebookCells(
                           [h EXCEPT !.startIndex = validate.startIndex,
                                     !.stopIndex = validate.stopIndex],
                           Text("Cell Execution", <<>>), doc,
                           validate.startIndex, validate.stopIndex))

deleteCellsValidateFirst(c, rq, active, doc, ver) ==
    LET h == [Read(Entered(rq), doc, ver) EXCEPT !.validated = TRUE]
        validate == RangeValidator(rq.a, rq.b, Len(doc), rq.name)
    IN  IF validate.thrown
        THEN Done(Fail(h, AsException(validate.error, TRUE)))
        ELSE IF ~active
        THEN Done(Fail(h, AsException(noActiveNotebook("deleteCells"), FALSE)))
        ELSE ApplyEdit(h, c, validate.startIndex, validate.stopIndex,
                       <<>>, ver)

deleteCells(c, rq, active, doc, ver) ==
    IF ~active
    THEN Done(Fail(Entered(rq),
                   AsException(noActiveNotebook("deleteCells"), FALSE)))
    ELSE LET h == [Read(Entered(rq), doc, ver) EXCEPT !.validated = TRUE]
             validate == RangeValidator(rq.a, rq.b, Len(doc), rq.name)
         IN  IF validate.thrown
             THEN Done(Fail(h, AsException(validate.error, TRUE)))
             ELSE ApplyEdit(h, c, validate.startIndex, validate.stopIndex,
                            <<>>, ver)

saveNotebook(c, rq, active, doc, ver) ==
    IF ~active
    THEN Done(Fail(Entered(rq),
                   AsException(noActiveNotebook("saveNotebook"), FALSE)))
    ELSE Done(Return([Entered(rq) EXCEPT !.calls = <<"workspace.save">>],
                     Text("Successfully saved notebook", <<>>)))

ServiceTools ==
    {"get_notebook_info", "get_notebook_cells", "insert_notebook_cells",
     "replace_notebook_cells", "modify_notebook_cell_content",
     "execute_notebook_cells", "delete_notebook_cells", "save_notebook"}

\* handleToolCall's switch: the service operation of a tool, with the
\* validation callback handleToolCall builds for it
ServiceCall(c, rq, active, doc, ver) ==
    CASE rq.name = "get_notebook_info" -> getNotebookInfo(c, rq, active, doc, ver)
      [] rq.name = "get_notebook_cells" -> getCells(c, rq, active, doc, ver)
      [] rq.name = "insert_notebook_cells" -> insertCells(c, rq, active, doc, ver)
      [] rq.name = "replace_notebook_cells" ->
             replaceCells(c, rq, active, doc, ver,
                          RangeValidator(rq.a, rq.b, Len(doc), rq.name),
                          rq.cells)
      [] rq.name = "modify_notebook_cell_content" ->
             modifyCellContent(c, rq, active, doc, ver)
      [] rq.name = "execute_notebook_cells" -> executeCells(c, rq, active, doc, ver)
      [] rq.name = "delete_notebook_cells" -> deleteCells(c, rq, active, doc, ver)
      [] rq.name = "save_notebook" -> saveNotebook(c, rq, active, doc, ver)

\* the rest of an editing operation once applyEdit has resolved, with the
\* live cells it then reads; the value applyEdit resolved to is not read
AfterEditAlwaysExecutes(h, live) ==
    LET k == Len(h.cellDataArray)
    IN  CASE h.rq.name = "insert_notebook_cells" ->
                 ExecuteNotebookCells(h,
                     Text("Successfully inserted", <<k, h.startIndex>>),
                     live, h.startIndex, h.startIndex + k)
          [] h.rq.name = "replace_notebook_cells" ->
                 ExecuteNotebookCells(h,
                     Text("Successfully replaced",
                          <<h.stopIndex - h.startIndex, k>>),
                     live, h.startIndex, h.startIndex + k)
          [] h.rq.name = "modify_notebook_cell_content" ->
                 ExecuteNotebookCells(h,
                     Text("Successfully modified", <<h.startIndex>>),
                     live, h.startIndex, h.startIndex + 1)
          [] h.rq.name = "delete_notebook_cells" ->
                 Return(h, Text("Successfully deleted",
                                <<h.stopIndex - h.startIndex, h.startIndex,
                                  h.stopIndex - 1>>))

AfterEdit(h, live) ==
    LET k == Len(h.cellDataArray)
    IN  CASE h.rq.name = "insert_notebook_cells" ->
                 IF h.rq.noexec
                 THEN Return(h, Text("Successfully inserted",
                                     <<k, h.startIndex>>))
                 ELSE ExecuteNotebookCells(h,
                          Text("Successfully inserted", <<k, h.startIndex>>),
                          live, h.startIndex, h.startIndex + k)
          [] h.rq.name = "replace_notebook_cells" ->
                 IF h.rq.noexec
                 THEN Return(h, Text("Successfully replaced",
                                     <<h.stopIndex - h.startIndex, k>>))
                 ELSE ExecuteNotebookCells(h,
                          Text("Successfully replaced",
                               <<h.stopIndex - h.startIndex, k>>),
                          live, h.startIndex, h.startIndex + k)
          [] h.rq.name = "modify_notebook_cell_content" ->
                 IF h.rq.noexec
                 THEN Return(h, Text("Successfully modified",
                                     <<h.startIndex>>))
                 ELSE ExecuteNotebookCells(h,
                          Text("Successfully modified", <<h.startIndex>>),
                          live, h.startIndex, h.startIndex + 1)
          [] h.rq.name = "delete_notebook_cells" ->
                 Return(h, Text("Successfully deleted",
                                <<h.stopIndex - h.startIndex, h.startIndex,
                                  h.stopIndex - 1>>))

(***************************************************************************)
(* The requests of the model                                               *)
(***************************************************************************)
\* the indices a request may carry once its schema has accepted them
IndexValues == 0 .. (MaxCells + ArgSlack)

ReadTools == {"get_notebook_info", "get_notebook_cells"}

\* a: start_index, cell_index or insert_position; b: stop_index, or the
\* new content of modify
Request(name, a, b, hasPosition, cells_, noexec) ==
    [name |-> name, a |-> a, b |-> b, hasPosition |-> hasPosition,
     cells |-> cells_, noexec |-> noexec]

ServiceRequests ==
    {Request(name, 0, 0, FALSE, <<>>, FALSE) :
        name \in ReadTools \cup {"save_notebook"}}
    \cup {Request("insert_notebook_cells", p, 0, TRUE, d, x) :
            p \in ArgValues, d \in CellDefinitions, x \in BOOLEAN}
    \cup {Request("insert_notebook_cells", 0, 0, FALSE, d, x) :
            d \in CellDefinitions, x \in BOOLEAN}
    \cup {Request("replace_notebook_cells", s, e, FALSE, d, x) :
            s \in IndexValues, e \in IndexValues, d \in CellDefinitions,
            x \in BOOLEAN}
    \cup {Request("modify_notebook_cell_content", i, 11, FALSE, <<>>, x) :
            i \in IndexValues, x \in BOOLEAN}
    \cup {Request(name, s, e, FALSE, <<>>, FALSE) :
            name \in {"execute_notebook_cells", "delete_notebook_cells"},
            s \in IndexValues, e \in IndexValues}

ReadRequests == {Request(name, 0, 0, FALSE, <<>>, FALSE) : name \in ReadTools}

\* the editing requests of two concurrent callers: one markdown cell and
\* no execution, or two code cells that are executed
OneMarkdownCell ==
    <<CellDefinition([cell_type |-> "markdown", language_id |-> Omitted], 1)>>

TwoCodeCells ==
    <<CellDefinition([cell_type |-> "code", language_id |-> "r"], 1),
      CellDefinition([cell_type |-> "code", language_id |-> "r"], 2)>>

EditRequests ==
    {Request("insert_notebook_cells", p, 0, TRUE, OneMarkdownCell, TRUE) :
        p \in ArgValues}
    \cup {Request("insert_notebook_cells", p, 0, TRUE, TwoCodeCells, FALSE) :
            p \in ArgValues}
    \cup {Request("replace_notebook_cells", s, e, FALSE, OneMarkdownCell, TRUE) :
            s \in IndexValues, e \in IndexValues}
    \cup {Request("delete_notebook_cells", s, e, FALSE, <<>>, FALSE) :
            s \in IndexValues, e \in IndexValues}

Finished(c) == handlers[c].pc \in {"returned", "thrown"}

(***************************************************************************)
(* The notebook service with the host                                      *)
(***************************************************************************)
InitNotebook ==
    /\ activeNotebookEditor \in BOOLEAN
    /\ notebook \in Notebooks
    /\ ~activeNotebookEditor => notebook = <<>>
    /\ version = 0
    /\ applyEdits = <<>>
    /\ handlers = [c \in Callers |-> NoHandler]
    /\ IdleValidate
    /\ IdleSync
    /\ IdleBody
    /\ IdleHttp
    /\ IdleTool
    /\ IdleModule
    /\ IdleConfig

\* a tool call runs up to its first await of the host
Call(c, rq) ==
    /\ handlers[c].pc = "idle"
    /\ LET r == ServiceCall(c, rq, activeNotebookEditor, notebook, version)
       IN  /\ handlers' = [handlers EXCEPT ![c] = r.h]
           /\ applyEdits' = applyEdits \o r.edits
    /\ UNCHANGED <<activeNotebookEditor, notebook, version>>
    /\ UNCHANGED <<varsValidate, varsSync, varsBody, varsHttp, varsTool,
                   varsModule, varsConfig>>

\* the host commits the oldest edit it was asked to apply, and the
\* operation that awaits it runs to its end
HostApplies ==
    /\ applyEdits # <<>>
    /\ LET edit == Head(applyEdits)
           live == Splice(notebook, edit.start, edit.stop, edit.cells)
       IN  /\ notebook' = live
           /\ version' = version + 1
           /\ handlers' =
                  [handlers EXCEPT ![edit.by] =
                      AfterEdit([@ EXCEPT !.commitVersion = version,
                                          !.appliedTo = notebook], live)]
    /\ applyEdits' = Tail(applyEdits)
    /\ UNCHANGED activeNotebookEditor
    /\ UNCHANGED <<varsValidate, varsSync, varsBody, varsHttp, varsTool,
                   varsModule, varsConfig>>

\* the host refuses an edit made for a version of the document that is no
\* longer the current one: applyEdit resolves to false
HostRejects ==
    /\ applyEdits # <<>>
    /\ Head(applyEdits).version # version
    /\ handlers' = [handlers EXCEPT ![Head(applyEdits).by] =
                       AfterEdit(@, notebook)]
    /\ applyEdits' = Tail(applyEdits)
    /\ UNCHANGED <<activeNotebookEditor, notebook, version>>
    /\ UNCHANGED <<varsValidate, varsSync, varsBody, varsHttp, varsTool,
                   varsModule, varsConfig>>

\* one call at a time: any call, then a reading call
NextNotebook ==
    \/ /\ handlers["first"].pc = "idle"
       /\ \E rq \in ServiceRequests : Call("first", rq)
    \/ /\ Finished("first")
       /\ \E rq \in ReadRequests : Call("second", rq)
    \/ HostApplies

SpecNotebook == InitNotebook /\ [][NextNotebook]_vars

\* two callers whose editing calls interleave at their awaits
NextConcurrent ==
    \/ \E c \in Callers :
           /\ handlers[c].pc = "idle"
           /\ \E rq \in EditRequests : Call(c, rq)
    \/ HostApplies
    \/ HostRejects

SpecConcurrent == InitNotebook /\ [][NextConcurrent]_vars

(***************************************************************************)
(* Vocabulary of the claims about the notebook service                     *)
(***************************************************************************)
\* the tools whose operation throws when no notebook editor is active
EditorTools == ServiceTools \ {"get_notebook_info"}

\* what handleToolCall hands to the call-tool handler for a finished call
HandlerOutcome(h) ==
    [thrown |-> h.pc = "thrown", exc |-> h.exc, text |-> NoMessage,
     calls |-> h.calls]

EditsOf(c) == {i \in 1 .. Len(applyEdits) : applyEdits[i].by = c}

\* C22: a call of get-cells, insert, replace, modify, execute, delete or
\* save made while no notebook editor is active fails with the
\* no-active-notebook error, with no validation callback evaluated and no
\* edit, execute or save issued to the host, and the call-tool handler
\* returns it as a result marked as an error
C22_NoActiveNotebookFirst ==
    \A c \in Callers :
        (/\ handlers[c].pc # "idle"
         /\ handlers[c].rq.name \in EditorTools
         /\ ~activeNotebookEditor) =>
            /\ handlers[c].pc = "thrown"
            /\ handlers[c].exc.code = "NO_ACTIVE_NOTEBOOK"
            /\ ~handlers[c].validated
            /\ handlers[c].calls = <<>>
            /\ EditsOf(c) = {}
            /\ handlers[c].commitVersion = 0 - 1
            /\ LET answer == CallToolHandler(HandlerOutcome(handlers[c]))
               IN  /\ ~answer.escaped
                   /\ answer.result.returned
                   /\ answer.result.isError

\* a delete whose range no document accepts, called without an editor
C22_Witness ==
    /\ ~activeNotebookEditor
    /\ handlers["first"].rq.name = "delete_notebook_cells"
    /\ handlers["first"].rq.a > handlers["first"].rq.b
    /\ handlers["first"].exc.code = "NO_ACTIVE_NOTEBOOK"

\* an insert that has passed the editor and empty-array checks
Inserting(c) ==
    /\ handlers[c].rq.name = "insert_notebook_cells"
    /\ handlers[c].pc # "idle"
    /\ activeNotebookEditor
    /\ Len(handlers[c].rq.cells) > 0

\* C23: an insert is never rejected for its position: with n cells in the
\* document, a numeric insert_position p places the new cells at
\* min(max(0, p), n) (0 when p < 0, n when p > n) and an omitted position
\* places them at n
C23_InsertPositionClamped ==
    \A c \in Callers :
        Inserting(c) =>
            LET h == handlers[c]
                n == Len(h.existingCells)
                p == h.rq.a
                k == Len(h.rq.cells)
                expected == IF ~h.rq.hasPosition THEN n
                            ELSE IF p < 0 THEN 0
                            ELSE IF p > n THEN n
                            ELSE p
            IN  /\ h.pc # "thrown"
                /\ h.startIndex = expected
                /\ h.pc = "returned" =>
                       /\ h.commitVersion # 0 - 1
                       /\ Len(notebook) = n + k
                       /\ \A i \in 1 .. k :
                              notebook[expected + i].content =
                                  h.rq.cells[i].content

\* the position is past the end of the document and the cells went to its end
C23_Witness ==
    /\ Inserting("first")
    /\ handlers["first"].pc = "returned"
    /\ handlers["first"].rq.hasPosition
    /\ Len(handlers["first"].existingCells) = MaxCells
    /\ handlers["first"].rq.a > MaxCells
    /\ handlers["first"].startIndex = MaxCells
    /\ notebook[MaxCells + 1].content = 11

\* caller first has inserted and caller second has then read the cells
InsertedThenRead ==
    /\ Inserting("first")
    /\ handlers["first"].pc = "returned"
    /\ handlers["second"].rq.name = "get_notebook_cells"
    /\ handlers["second"].pc = "returned"

\* C24: after an insert of k >= 1 cells at effective position p into a
\* document of n cells, get-cells shows n + k cells: the inserted contents
\* in the given order at indices p .. p + k - 1, every cell formerly at an
\* index i >= p at index i + k, every cell formerly at an index i < p
\* unchanged at index i
C24_InsertRoundTrip ==
    InsertedThenRead =>
        LET h == handlers["first"]
            former == h.existingCells
            n == Len(former)
            k == Len(h.rq.cells)
            p == h.startIndex
            shown == handlers["second"].text.shown
        IN  /\ k >= 1
            /\ Len(shown) = n + k
            /\ handlers["second"].text.args = <<n + k>>
            /\ \A j \in 1 .. (n + k) : shown[j].index = j - 1
            /\ \A i \in 0 .. (k - 1) :
                   shown[p + i + 1].content = h.rq.cells[i + 1].content
            /\ \A i \in 0 .. (n - 1) :
                   LET at == IF i >= p THEN i + k ELSE i
                   IN  /\ shown[at + 1].content = former[i + 1].content
                       /\ shown[at + 1].languageId = former[i + 1].languageId
                       /\ (shown[at + 1].cellType = "code") <=>
                              (former[i + 1].kind = "Code")

\* two cells went between the two cells of a document, and were read back
C24_Witness ==
    /\ InsertedThenRead
    /\ Len(handlers["first"].existingCells) = 2
    /\ handlers["first"].startIndex = 1
    /\ Len(handlers["first"].rq.cells) = 2
    /\ Len(handlers["second"].text.shown) = 4

Reading(c) == handlers[c].pc # "idle" /\ handlers[c].rq.name \in ReadTools

\* C25: get-cells and get-info issue no edit, execute or save to the host
\* and leave the document as it was, and two get-cells calls with no edit
\* between them return the same content
C25_ReadOnly ==
    /\ \A c \in Callers :
           Reading(c) =>
               /\ Finished(c)
               /\ handlers[c].calls = <<>>
               /\ EditsOf(c) = {}
               /\ handlers[c].commitVersion = 0 - 1
               /\ handlers[c].readVersion \in {0 - 1, version}
               /\ handlers[c].readVersion = version =>
                      handlers[c].existingCells = notebook
    /\ (/\ \A c \in Callers :
               /\ handlers[c].rq.name = "get_notebook_cells"
               /\ handlers[c].pc = "returned"
        /\ handlers["first"].readVersion = handlers["second"].readVersion) =>
           handlers["first"].text = handlers["second"].text

\* two get-cells calls on a document of two cells
C25_Witness ==
    /\ \A c \in Callers :
           /\ handlers[c].rq.name = "get_notebook_cells"
           /\ handlers[c].pc = "returned"
           /\ Len(handlers[c].text.shown) = 2
    /\ version = 0

\* a replace whose cell data has been built
Replacing(c) ==
    /\ handlers[c].rq.name = "replace_notebook_cells"
    /\ handlers[c].pc \in {"applyEdit", "returned"}

\* the cells a replace found in its range when it read the document
Replaced(c) ==
    SubSeq(handlers[c].existingCells, handlers[c].startIndex + 1,
           handlers[c].stopIndex)

\* C26: in replace, the i-th new cell takes the kind it names, or else the
\* kind of the i-th replaced cell (of the first replaced cell when i is
\* beyond the replaced range); a new cell of code kind takes the
\* language_id it names, or else the language of the i-th replaced cell
\* when i is within the range and that cell is a code cell, otherwise the
\* language of the first code cell among the replaced cells, otherwise
\* 'python'
C26_ReplaceLanguageFallback ==
    \A c \in Callers :
        Replacing(c) =>
            LET replaced == Replaced(c)
                new == handlers[c].cellDataArray
                codeCells == {j \in 1 .. Len(replaced) :
                                 replaced[j].kind = "Code"}
            IN  /\ Len(new) = Len(handlers[c].rq.cells)
                /\ \A i \in 1 .. Len(new) :
                       LET def == handlers[c].rq.cells[i]
                           within == i <= Len(replaced)
                       IN  /\ def.cell_type = "code" => new[i].kind = "Code"
                           /\ def.cell_type = "markdown" =>
                                  new[i].kind = "Markup"
                           /\ (def.cell_type = Omitted /\ within) =>
                                  new[i].kind = replaced[i].kind
                           /\ (def.cell_type = Omitted /\ ~within) =>
                                  new[i].kind = replaced[1].kind
                           /\ new[i].kind = "Code" =>
                                  IF def.language_id # Omitted
                                  THEN new[i].languageId = def.language_id
                                  ELSE IF within /\ replaced[i].kind = "Code"
                                  THEN new[i].languageId =
                                           replaced[i].languageId
                                  ELSE IF codeCells # {}
                                  THEN \E j \in codeCells :
                                         /\ \A m \in codeCells : j <= m
                                         /\ new[i].languageId =
                                                replaced[j].languageId
                                  ELSE new[i].languageId = "python"

\* the second new cell is beyond the one replaced cell and takes the
\* language of that cell, which is not the first code cell of the document
C26_Witness ==
    /\ Replacing("first")
    /\ handlers["first"].startIndex = 1
    /\ Len(Replaced("first")) = 1
    /\ handlers["first"].existingCells[1].kind = "Code"
    /\ handlers["first"].existingCells[1].languageId = "python"
    /\ Replaced("first")[1].languageId = "r"
    /\ Len(handlers["first"].rq.cells) = 2
    /\ handlers["first"].rq.cells[2].language_id = Omitted
    /\ handlers["first"].rq.cells[2].cell_type = Omitted
    /\ handlers["first"].cellDataArray[2].languageId = "r"

\* a modify of an index that the document it read accepts
Modifying(c) ==
    /\ handlers[c].rq.name = "modify_notebook_cell_content"
    /\ handlers[c].pc # "idle"
    /\ activeNotebookEditor
    /\ handlers[c].rq.a < Len(handlers[c].existingCells)

\* C27: a modify of a valid index i changes only the content of cell i: the
\* cell keeps its kind and language, the cell count is unchanged, and every
\* other cell keeps its index, kind, language and content
C27_ModifyOnlyContent ==
    \A c \in Callers :
        Modifying(c) =>
            LET h == handlers[c]
                former == h.existingCells
                i == h.rq.a
            IN  /\ h.pc # "thrown"
                /\ h.pc = "returned" =>
                       /\ Len(notebook) = Len(former)
                       /\ notebook[i + 1].content = h.rq.b
                       /\ notebook[i + 1].kind = former[i + 1].kind
                       /\ notebook[i + 1].languageId =
                              former[i + 1].languageId
                       /\ \A j \in 1 .. Len(former) :
                              j # i + 1 => notebook[j] = former[j]

\* the second cell, a code cell, got the new content
C27_Witness ==
    /\ Modifying("first")
    /\ handlers["first"].pc = "returned"
    /\ handlers["first"].rq.a = 1
    /\ handlers["first"].existingCells[2].kind = "Code"
    /\ handlers["first"].existingCells[2].content = 2
    /\ notebook[2].content = 11

\* C28: an inserted code cell that omits language_id gets the language of
\* the first code cell of the notebook, or 'python' when the notebook has
\* no code cell, the empty notebook included; no inserted code cell has an
\* empty language
C28_InsertLanguage ==
    \A c \in Callers :
        (Inserting(c) /\ handlers[c].pc \in {"applyEdit", "returned"}) =>
            LET h == handlers[c]
                codeCells == {j \in 1 .. Len(h.existingCells) :
                                 h.existingCells[j].kind = "Code"}
            IN  \A i \in 1 .. Len(h.rq.cells) :
                    h.rq.cells[i].cell_type = "code" =>
                        /\ h.cellDataArray[i].kind = "Code"
                        /\ h.cellDataArray[i].languageId # ""
                        /\ h.rq.cells[i].language_id = Omitted =>
                               IF codeCells # {}
                               THEN \E j \in codeCells :
                                      /\ \A m \in codeCells : j <= m
                                      /\ h.cellDataArray[i].languageId =
                                             h.existingCells[j].languageId
                               ELSE h.cellDataArray[i].languageId = "python"

ExecutingTools ==
    {"insert_notebook_cells", "replace_notebook_cells",
     "modify_notebook_cell_content"}

\* an insert, replace or modify whose edit the host has committed
Edited(c) ==
    /\ handlers[c].rq.name \in ExecutingTools
    /\ handlers[c].pc = "returned"
    /\ handlers[c].commitVersion # 0 - 1

\* the live cells such a call hands to executeNotebookCells hold a code cell
CodeCellInRange(c) ==
    \E j \in (handlers[c].startIndex + 1) ..
             (handlers[c].startIndex +
                 IF handlers[c].rq.name = "modify_notebook_cell_content"
                 THEN 1 ELSE Len(handlers[c].cellDataArray)) :
        j <= Len(notebook) /\ notebook[j].kind = "Code"

NeverExecutes(c) ==
    (/\ handlers[c].rq.name \in
            {"delete_notebook_cells", "save_notebook", "get_notebook_cells",
             "get_notebook_info"}
     /\ handlers[c].pc # "idle") =>
        \A i \in 1 .. Len(handlers[c].calls) :
            handlers[c].calls[i] # "notebook.cell.execute"

\* C29: with noexec true, insert, replace and modify issue no execute
\* command and return right after their edit; with noexec false or omitted
\* they issue the execute command after the edit has been applied; delete,
\* save, get-cells and get-info never issue an execute command
C29_NoexecDiscipline ==
    \A c \in Callers :
        /\ Edited(c) =>
               IF handlers[c].rq.noexec
               THEN handlers[c].calls = <<"workspace.applyEdit">>
               ELSE handlers[c].calls =
                        <<"workspace.applyEdit", "notebook.cell.execute">>
        /\ NeverExecutes(c)

\* C29 as the code has it: without noexec the execute command follows the
\* edit when the cells of the edited range hold a code cell, and no command
\* is issued when they hold none
C29_NoexecDisciplineCodeCells ==
    \A c \in Callers :
        /\ Edited(c) =>
               IF handlers[c].rq.noexec
               THEN /\ handlers[c].calls = <<"workspace.applyEdit">>
                    /\ handlers[c].text.execution = "none"
               ELSE IF CodeCellInRange(c)
               THEN /\ handlers[c].calls =
                           <<"workspace.applyEdit", "notebook.cell.execute">>
                    /\ handlers[c].text.execution = "Cell Execution Results"
               ELSE /\ handlers[c].calls = <<"workspace.applyEdit">>
                    /\ handlers[c].text.execution =
                           "No code cells found in the specified range"
        /\ NeverExecutes(c)

\* a code cell was inserted without noexec and executed after the edit
C29_Witness ==
    /\ Edited("first")
    /\ handlers["first"].rq.name = "insert_notebook_cells"
    /\ ~handlers["first"].rq.noexec
    /\ handlers["first"].cellDataArray[1].kind = "Code"
    /\ handlers["first"].calls =
           <<"workspace.applyEdit", "notebook.cell.execute">>

\* the host has committed the edit of caller c
Committed(c) == handlers[c].commitVersion # 0 - 1

\* C30: under any interleaving of concurrent tool calls, no other call's
\* insert, replace or delete commits between a handler's read of the cell
\* count and the commit of its own edit, so the range (or position) it
\* validated is valid for the document its edit is applied to
C30_NoCommitBetweenReadAndEdit ==
    \A c \in Callers :
        Committed(c) =>
            /\ handlers[c].commitVersion = handlers[c].readVersion
            /\ handlers[c].appliedTo = handlers[c].existingCells
            /\ handlers[c].stopIndex <= Len(handlers[c].appliedTo)

\* C31: whenever insert, replace, modify or execute issues the execute
\* command for a range [a, b), 0 <= a < b <= cellCount holds for the cell
\* count of the document at the moment the command is issued, also when
\* another request's edit has committed while the handler awaited its own
C31_ExecuteRangeInDocument ==
    \A c \in Callers :
        handlers[c].command.issued =>
            /\ 0 <= handlers[c].command.start
            /\ handlers[c].command.start < handlers[c].command.end
            /\ handlers[c].command.end <= handlers[c].command.cellCount

(***************************************************************************)
(* MCP module (initializeMCPModule, cleanupMCPModule,                      *)
(* ensureMCPServerStarted, configureProjectMCPServer) and the lifecycle of *)
(* an MCPServer (constructor, start, stop, getPort).                       *)
(*                                                                         *)
(* An async function runs synchronously up to its first await, so         *)
(* initializeMCPModule runs ensureMCPServerStarted up to                   *)
(* `await mcpServer.start()` within the call, while                        *)
(* configureProjectMCPServer reaches it only after `await config.update`.  *)
(* http.Server.listen is asynchronous: its callback runs in a later turn   *)
(* of the event loop, and only that callback's continuation assigns        *)
(* this.port.  http.Server.close on a server that is not yet listening    *)
(* abandons the listen; its callback still runs with the 'close' event.    *)
(***************************************************************************)
\* the OS-assigned port of the i-th server: positive, one per listener
AssignedPort(i) == i

\* the next `new MCPServer(packageJSON)`
Constructed == {i \in ServerIds : servers[i].created}
NewServer == Cardinality(Constructed) + 1

\* MCPServer.getPort() of the module's server: mcpServer?.getPort() ?? 0
RunningPort == IF mcpServer = 0 THEN 0 ELSE servers[mcpServer].port

\* MCPServer.start() up to the return of its promise: http.createServer and
\* httpServer.listen(0, '127.0.0.1', callback)
start(s) ==
    [s EXCEPT !.created = TRUE, !.httpServer = TRUE, !.socket = "binding",
              !.start = "pending"]

\* one call of stop(): what the promise's executor does
NoStop == [state |-> "pending", timer |-> FALSE, closeCb |-> FALSE,
           by |-> "none"]
stopKeepingTransport(s) ==
    IF ~s.httpServer
    THEN [s EXCEPT !.stops = Append(@, [NoStop EXCEPT !.state = "resolved",
                                                      !.by = "call"])]
    ELSE [s EXCEPT !.socket = IF @ \in {"binding", "listening"}
                              THEN "closing" ELSE @,
                   !.stops = Append(@, [NoStop EXCEPT !.timer = TRUE,
                                                      !.closeCb = TRUE])]
stop(s) ==
    IF ~s.httpServer
    THEN [s EXCEPT !.transport = FALSE,
                   !.stops = Append(@, [NoStop EXCEPT !.state = "resolved",
                                                      !.by = "call"])]
    ELSE [s EXCEPT !.transport = FALSE,
                   !.socket = IF @ \in {"binding", "listening"}
                              THEN "closing" ELSE @,
                   !.stops = Append(@, [NoStop EXCEPT !.timer = TRUE,
                                                      !.closeCb = TRUE])]

\* ensureMCPServerStarted() up to its return or its await, run by caller c
\* context: globalContext is set when it runs
ensureMCPServerStarted(c, context) ==
    IF RunningPort > 0
    THEN /\ moduleCalls' = [moduleCalls EXCEPT ![c] =
                [pc |-> "returned", server |-> mcpServer,
                 port |-> RunningPort]]
         /\ UNCHANGED <<mcpServer, servers>>
    ELSE IF ~context
    THEN /\ moduleCalls' = [moduleCalls EXCEPT ![c] =
                [pc |-> "threw", server |-> 0, port |-> 0]]
         /\ UNCHANGED <<mcpServer, servers>>
    ELSE /\ NewServer \in ServerIds
         /\ mcpServer' = NewServer
         /\ servers' = [servers EXCEPT ![NewServer] = start(@)]
         /\ moduleCalls' = [moduleCalls EXCEPT ![c] =
                [pc |-> "starting", server |-> NewServer, port |-> 0]]

\* the extension is activated: initializeMCPModule(context)
initializeMCPModule ==
    /\ ~globalContext
    /\ globalContext' = TRUE
    /\ UNCHANGED mcpEnable
    /\ IF mcpEnable
       THEN ensureMCPServerStarted("initialize", TRUE)
       ELSE UNCHANGED <<mcpServer, servers, moduleCalls>>
    /\ UNCHANGED <<varsValidate, varsSync, varsBody, varsHttp, varsTool,
                   varsNotebook, varsConfig>>

\* the command runs configureProjectMCPServer() up to `await config.update`;
\* without a workspace folder it returns at once
configureProjectMCPServer ==
    /\ moduleCalls["configure"].pc \in {"idle", "returned", "threw"}
    /\ \E workspaceFolders \in BOOLEAN :
        moduleCalls' = [moduleCalls EXCEPT !["configure"] =
            IF workspaceFolders
            THEN [pc |-> "updating", server |-> 0, port |-> 0]
            ELSE [pc |-> "returned", server |-> 0, port |-> 0]]
    /\ UNCHANGED <<mcpServer, globalContext, mcpEnable, servers>>
    /\ UNCHANGED <<varsValidate, varsSync, varsBody, varsHttp, varsTool,
                   varsNotebook, varsConfig>>

\* config.update('mcp.enable', true) has returned
ConfigUpdated ==
    /\ moduleCalls["configure"].pc = "updating"
    /\ mcpEnable' = TRUE
    /\ ensureMCPServerStarted("configure", globalContext)
    /\ UNCHANGED globalContext
    /\ UNCHANGED <<varsValidate, varsSync, varsBody, varsHttp, varsTool,
                   varsNotebook, varsConfig>>

\* the callback of httpServer.listen and its continuation:
\* initializeTransport(), this.port = address.port, resolve(this.port);
\* the callers awaiting start() go on with the port
ListenCallback(i) ==
    /\ servers[i].socket = "binding"
    /\ servers' = [servers EXCEPT ![i] =
            [@ EXCEPT !.socket = "listening", !.transport = TRUE,
                      !.port = AssignedPort(i), !.start = "resolved"]]
    /\ moduleCalls' = [c \in ModuleCallers |->
            IF moduleCalls[c].pc = "starting" /\ moduleCalls[c].server = i
            THEN [pc |-> "returned", server |-> i, port |-> AssignedPort(i)]
            ELSE moduleCalls[c]]
    /\ UNCHANGED <<mcpServer, globalContext, mcpEnable>>
    /\ UNCHANGED <<varsValidate, varsSync, varsBody, varsHttp, varsTool,
                   varsNotebook, varsConfig>>

\* the extension is deactivated: cleanupMCPModule()
cleanupMCPModule ==
    /\ globalContext
    /\ IF mcpServer # 0
       THEN servers' = [servers EXCEPT ![mcpServer] = stop(@)]
       ELSE UNCHANGED servers
    /\ mcpServer' = 0
    /\ globalContext' = FALSE
    /\ UNCHANGED <<mcpEnable, moduleCalls>>
    /\ UNCHANGED <<varsValidate, varsSync, varsBody, varsHttp, varsTool,
                   varsNotebook, varsConfig>>

\* stop() is called once more on a server that was stopped before
StopAgain(i) ==
    /\ Len(servers[i].stops) = 1
    /\ servers' = [servers EXCEPT ![i] = stop(@)]
    /\ UNCHANGED <<mcpServer, globalContext, mcpEnable, moduleCalls>>
    /\ UNCHANGED <<varsValidate, varsSync, varsBody, varsHttp, varsTool,
                   varsNotebook, varsConfig>>

\* a settled promise ignores resolve()
Resolve(st, by) ==
    IF st.state = "pending" THEN [st EXCEPT !.state = "resolved", !.by = by]
    ELSE st

\* the server emits 'close': every callback given to httpServer.close runs,
\* clearTimeout(shutdownTimeout); this.httpServer = null; resolve()
CloseCallback(i) ==
    /\ servers[i].socket = "closing"
    /\ servers' = [servers EXCEPT ![i] =
            [@ EXCEPT !.socket = "closed", !.httpServer = FALSE,
                      !.stops = [k \in DOMAIN @ |->
                          IF @[k].closeCb
                          THEN [Resolve(@[k], "close") EXCEPT
                                    !.timer = FALSE, !.closeCb = FALSE]
                          ELSE @[k]]]]
    /\ UNCHANGED <<mcpServer, globalContext, mcpEnable, moduleCalls>>
    /\ UNCHANGED <<varsValidate, varsSync, varsBody, varsHttp, varsTool,
                   varsNotebook, varsConfig>>

\* the shutdown timer of the k-th stop() fires:
\* closeAllConnections(); this.httpServer = null; resolve()
ShutdownTimeout(i, k) ==
    /\ k \in DOMAIN servers[i].stops
    /\ servers[i].stops[k].timer
    /\ servers' = [servers EXCEPT ![i] =
            [@ EXCEPT !.httpServer = FALSE,
                      !.stops[k] = [Resolve(@, "timeout") EXCEPT
                                        !.timer = FALSE]]]
    /\ UNCHANGED <<mcpServer, globalContext, mcpEnable, moduleCalls>>
    /\ UNCHANGED <<varsValidate, varsSync, varsBody, varsHttp, varsTool,
                   varsNotebook, varsConfig>>

InitModule ==
    /\ mcpServer = 0
    /\ globalContext = FALSE
    /\ mcpEnable \in BOOLEAN
    /\ servers = [i \in ServerIds |-> NoServer]
    /\ moduleCalls = [c \in ModuleCallers |-> NoModuleCall]
    /\ IdleValidate
    /\ IdleSync
    /\ IdleBody
    /\ IdleHttp
    /\ IdleTool
    /\ IdleNotebook
    /\ IdleConfig

ServerStep ==
    \/ \E i \in ServerIds : CloseCallback(i)
    \/ \E i \in ServerIds :
           \E k \in DOMAIN servers[i].stops : ShutdownTimeout(i, k)

NextModule ==
    \/ initializeMCPModule
    \/ configureProjectMCPServer
    \/ ConfigUpdated
    \/ cleanupMCPModule
    \/ \E i \in ServerIds : ListenCallback(i)
    \/ \E i \in ServerIds : StopAgain(i)
    \/ ServerStep

SpecModule == InitModule /\ [][NextModule]_vars

\* a timer that is armed fires, and a closing server emits 'close'
FairSpecModule ==
    /\ SpecModule
    /\ \A i \in ServerIds :
        /\ WF_vars(CloseCallback(i))
        /\ WF_vars(\E k \in DOMAIN servers[i].stops : ShutdownTimeout(i, k))

\* C32: at most one MCPServer is bound or listening at a time, under every
\* interleaving of initializeMCPModule, configureProjectMCPServer and
\* cleanupMCPModule
Listeners == {i \in ServerIds : servers[i].socket \in {"binding", "listening"}}
C32_SingleListener == Cardinality(Listeners) <= 1

\* C39: MCPServer.stop always resolves and never rejects.  A call that finds
\* no HTTP server resolves within the call; any other call stays pending
\* with its close callback registered and its shutdown timer armed, and is
\* resolved by whichever of the two runs first; once a call has resolved,
\* the instance holds neither an HTTP server nor a transport; every call,
\* a repeated one included, is resolved in the end
StopCalls ==
    UNION {{<<i, k>> : k \in DOMAIN servers[i].stops} : i \in ServerIds}
StopCall(ik) == servers[ik[1]].stops[ik[2]]
C39_StopSettles ==
    \A ik \in StopCalls :
        /\ StopCall(ik).state \in {"pending", "resolved"}
        /\ StopCall(ik).state = "pending" =>
               StopCall(ik).timer /\ StopCall(ik).closeCb
        /\ StopCall(ik).state = "resolved" =>
               /\ StopCall(ik).by \in {"call", "close", "timeout"}
               /\ ~servers[ik[1]].httpServer
               /\ ~servers[ik[1]].transport
C39_ResolvesAtOnce ==
    \A i \in ServerIds :
        (~servers[i].httpServer /\ Len(servers'[i].stops) > Len(servers[i].stops))
            => servers'[i].stops[Len(servers'[i].stops)].by = "call"
C39_StopResolves ==
    /\ []C39_StopSettles
    /\ [][C39_ResolvesAtOnce]_vars
    /\ []<>(\A ik \in StopCalls : StopCall(ik).state = "resolved")
\* a first stop() resolved by its timer, then the close callback, and a
\* second stop() resolved as well
C39_Witness ==
    \E i \in ServerIds :
        /\ Len(servers[i].stops) = 2
        /\ servers[i].stops[1].by = "timeout"
        /\ servers[i].stops[2].by \in {"close", "call"}
        /\ servers[i].socket = "closed"

(***************************************************************************)
(* The synchronizer and the notebook service side by side: a behaviour is  *)
(* either one run of executeNotebookCells or calls of the service.         *)
(***************************************************************************)
InitExecution == InitSync \/ InitNotebook

NextExecution ==
    \/ pc # "idle" /\ NextSync
    \/ pc = "idle" /\ NextNotebook

SpecExecution == InitExecution /\ [][NextExecution]_vars

\* the run has gone past the early return for a range without code cells
Issued == pc \in {"command", "loop", "wait", "settle"}
ExecuteCalls(h) ==
    Cardinality({i \in 1 .. Len(h.calls) : h.calls[i] = "notebook.cell.execute"})
ModifiedWithExecution(c) ==
    /\ handlers[c].rq.name = "modify_notebook_cell_content"
    /\ handlers[c].pc = "returned"
    /\ ~handlers[c].rq.noexec

\* the snapshot holds, for every target code cell the kernel has not
\* touched since, the marker the cell has; the kernel touches cells only
\* after the command
SnapshotBeforeCommand ==
    /\ DOMAIN previousExecutionOrders = CodeCells
    /\ \A i \in CodeCells \ kernelChanged :
           previousExecutionOrders[i] = cells[i + 1].marker
\* a poll is made only with the command sent, and sends none
PollAfterCommand ==
    polls' # polls => commands = ExecuteCommand /\ commands' = commands

\* C34 as stated: every run of the synchronizer snapshots the markers
\* before the execute command, issues exactly one execute command, for the
\* whole range [start, stop), and polls only after it; a modify with
\* execution issues exactly one execute command in total
C34_OneExecuteCommand ==
    /\ pc \notin {"idle", "call"} =>
           /\ commands = << <<startIndex, stopIndex>> >>
           /\ SnapshotBeforeCommand
    /\ pc \in {"call", "command"} => polls = 0
    /\ \A c \in Callers :
           ModifiedWithExecution(c) => ExecuteCalls(handlers[c]) = 1

\* C34 as the code has it: a run whose range holds a code cell snapshots
\* the markers, then issues exactly one execute command, for the whole
\* range, and polls only after it; a run whose range holds none issues no
\* command; a modify with execution issues one execute command in total
\* when the modified cell is a code cell and none otherwise
C34_ExecuteCommandOrder ==
    /\ Len(commands) <= 1
    /\ Issued =>
           /\ commands = << <<startIndex, stopIndex>> >>
           /\ SnapshotBeforeCommand
    /\ pc \in {"done", "returned"} =>
           commands = IF CodeCells = {} THEN <<>>
                      ELSE << <<startIndex, stopIndex>> >>
    /\ pc \in {"call", "command"} => polls = 0
    /\ \A c \in Callers :
           ModifiedWithExecution(c) =>
               /\ ExecuteCalls(handlers[c]) =
                      IF CodeCellInRange(c) THEN 1 ELSE 0
               /\ handlers[c].calls[1] = "workspace.applyEdit"
C34_OneCommandPerRun ==
    []C34_ExecuteCommandOrder /\ [][PollAfterCommand]_vars
\* a run over two code cells that polled twice after its one command, the
\* kernel having changed a marker after the snapshot
C34_Witness ==
    /\ pc = "done"
    /\ Cardinality(CodeCells) = 2
    /\ commands = << <<0, 2>> >>
    /\ polls >= 2
    /\ kernelChanged # {}
\* a code cell was modified with execution
C34_WitnessModify ==
    \E c \in Callers :
        ModifiedWithExecution(c) /\ ExecuteCalls(handlers[c]) = 1

\* C35: the two copies of the polling loop end with the same outcome: the
\* older copy (extension.ts) ends with allComplete true exactly when the
\* copy that recomputes allComplete at every poll does, also when the
\* watched cells finish after the first poll and before the deadline
C35_PollersAgree ==
    (pc \in {"done", "returned"} /\ result.kind = "results") =>
        (allCompleteOlder <=> allComplete)

\* C36: a report without the did-not-complete warning was preceded by a
\* poll that found every non-blank code cell of the range with a marker
\* other than its snapshot; a run in which the deadline has passed when the
\* execute command returns makes no poll and is reported as incomplete
C36_CompletedOnlyIfObserved ==
    (pc \in {"done", "returned"} /\ result.kind = "results"
        /\ ~result.warning) =>
            /\ polls > 0
            /\ executionComplete

(***************************************************************************)
(* The dispatcher and the notebook service side by side: a behaviour is    *)
(* either one tool call seen at handleToolCall, in any state of the        *)
(* editor, or calls of the service.                                        *)
(***************************************************************************)
InitRejection == InitTool \/ InitNotebook

NextRejection ==
    \/ IdleNotebook /\ ~ToolCalled /\ NextTool
    \/ IdleTool /\ IdleValidate /\ NextNotebook

SpecRejection == InitRejection /\ [][NextRejection]_vars

\* a call that failed one of the checks of the dispatcher
RejectedByDispatcher == ToolFailed /\ toolFailure.class = "RooNotebookError"
\* a call that failed one of the checks of the service
RejectedByService(c) == handlers[c].pc = "thrown"

RejectionIssuesNothing ==
    /\ RejectedByDispatcher =>
           \A i \in 1 .. Len(hostCalls) : hostCalls[i] = "notebook.getCells"
    /\ \A c \in Callers :
           RejectedByService(c) =>
               /\ handlers[c].calls = <<>>
               /\ EditsOf(c) = {}
               /\ ~Committed(c)
RejectionKeepsDocument ==
    \A c \in Callers :
        (handlers'[c].pc = "thrown" /\ handlers[c].pc # "thrown") =>
            UNCHANGED <<notebook, version, applyEdits>>

\* C37: a tool call that is rejected by schema validation, by range or
\* index validation, by insert's check of an empty cells array or by the
\* lookup of an unknown tool issues no edit, no execute command and no
\* save, and leaves the document as it was
C37_RejectedChangesNothing ==
    []RejectionIssuesNothing /\ [][RejectionKeepsDocument]_vars
\* an insert with an empty cells array was rejected on a notebook with cells
C37_Witness ==
    \E c \in Callers :
        /\ RejectedByService(c)
        /\ handlers[c].rq.name = "insert_notebook_cells"
        /\ handlers[c].rq.cells = <<>>
        /\ Len(notebook) > 0
\* a call of an unknown tool was rejected by the dispatcher
C37_WitnessUnknownTool ==
    RejectedByDispatcher /\ toolFailure.code = "MCP_TOOL_ERROR"

\* C38: after an insert, replace or modify without noexec, the execute
\* command is for the cells the call wrote and for no other cell: the
\* range [p, p + k) of the k cells inserted at p, [s, s + k) of the k cells
\* that replaced [s, e), [i, i + 1) of the modified cell; these cells are
\* the cells written; a replace by no cells sends no command
Written(c) ==
    [start |-> handlers[c].startIndex,
     end |-> handlers[c].startIndex + Len(handlers[c].cellDataArray)]
C38_ExecutesWrittenCells ==
    \A c \in Callers :
        (Edited(c) /\ ~handlers[c].rq.noexec) =>
            /\ Slice(notebook, Written(c).start, Written(c).end) =
                   handlers[c].cellDataArray
            /\ handlers[c].rq.name = "modify_notebook_cell_content" =>
                   Written(c).end = handlers[c].rq.a + 1
            /\ IF handlers[c].command.issued
               THEN /\ handlers[c].command.start = Written(c).start
                    /\ handlers[c].command.end = Written(c).end
                    /\ ExecuteCalls(handlers[c]) = 1
               ELSE /\ ExecuteCalls(handlers[c]) = 0
                    /\ \A j \in 1 .. Len(handlers[c].cellDataArray) :
                           handlers[c].cellDataArray[j].kind # "Code"
\* two cells, one of them a code cell, replaced one cell of a notebook of
\* two and were executed
C38_Witness ==
    \E c \in Callers :
        /\ Edited(c)
        /\ handlers[c].rq.name = "replace_notebook_cells"
        /\ handlers[c].stopIndex - handlers[c].startIndex = 1
        /\ Len(handlers[c].cellDataArray) = 2
        /\ handlers[c].command.issued
        /\ handlers[c].command.end - handlers[c].command.start = 2
\* a range was replaced by no cells and no command was sent
C38_WitnessEmpty ==
    \E c \in Callers :
        /\ Edited(c)
        /\ ~handlers[c].rq.noexec
        /\ handlers[c].rq.name = "replace_notebook_cells"
        /\ handlers[c].cellDataArray = <<>>

(***************************************************************************)
(* errors.ts: ConfigValidator.getNumericConfig, getNotebookSettings,       *)
(* getMCPSettings.  The configuration is whatever the user has written:    *)
(* numbers near the bounds of each setting, the default, NaN, the          *)
(* infinities, a value of another type, or nothing.                        *)
(***************************************************************************)
\* the arguments defaultValue, min, max of each call of getNumericConfig
Arguments(key) ==
    CASE key = "maxOutputSize" ->
             [defaultValue |-> 2000, min |-> 100, max |-> 50000]
      [] key = "timeoutSeconds" ->
             [defaultValue |-> 30, min |-> 5, max |-> 300]
      [] key = "mcp.requestTimeoutSeconds" ->
             [defaultValue |-> 600, min |-> 30, max |-> 3600]
      [] key = "mcp.maxRequestSizeMB" ->
             [defaultValue |-> 10, min |-> 1, max |-> 100]

ConfiguredValues(key) ==
    {Number(n) : n \in (Arguments(key).min - ConfigSlack) ..
                       (Arguments(key).min + ConfigSlack)}
        \cup {Number(n) : n \in (Arguments(key).max - ConfigSlack) ..
                                (Arguments(key).max + ConfigSlack)}
        \cup {Number(Arguments(key).defaultValue), NotANumber,
              PositiveInfinity, NegativeInfinity, AString, Undefined}

\* config.get<number>(key, defaultValue)
Get(cfg, key, defaultValue) ==
    IF cfg[key] = Undefined THEN Number(defaultValue) ELSE cfg[key]

\* value < bound and value > bound of JavaScript numbers; NaN is neither
LessThan(value, bound) ==
    value.kind = "-Infinity" \/ (value.kind = "number" /\ value.n < bound)
GreaterThan(value, bound) ==
    value.kind = "Infinity" \/ (value.kind = "number" /\ value.n > bound)

getNumericConfigDefaulting(cfg, key, defaultValue, min, max) ==
    LET value == Get(cfg, key, defaultValue)
    IN  IF value.kind \notin {"number", "Infinity", "-Infinity"}
        THEN defaultValue
        ELSE IF LessThan(value, min) THEN defaultValue
        ELSE IF GreaterThan(value, max) THEN defaultValue
        ELSE value.n

\* typeof value !== 'number' || isNaN(value) -> defaultValue;
\* value < min -> min; value > max -> max; else value
getNumericConfig(cfg, key, defaultValue, min, max) ==
    LET value == Get(cfg, key, defaultValue)
    IN  IF value.kind \notin {"number", "Infinity", "-Infinity"}
        THEN defaultValue
        ELSE IF LessThan(value, min) THEN min
        ELSE IF GreaterThan(value, max) THEN max
        ELSE value.n

Validated(key) ==
    getNumericConfig(config, key, Arguments(key).defaultValue,
                     Arguments(key).min, Arguments(key).max)

getNotebookSettings ==
    /\ settings' = [settings EXCEPT
            !["maxOutputSize"] = Validated("maxOutputSize"),
            !["timeoutSeconds"] = Validated("timeoutSeconds")]
    /\ UNCHANGED config
    /\ UNCHANGED <<varsValidate, varsSync, varsBody, varsHttp, varsTool,
                   varsNotebook, varsModule>>

getMCPSettings ==
    /\ settings' = [settings EXCEPT
            !["mcp.requestTimeoutSeconds"] =
                Validated("mcp.requestTimeoutSeconds"),
            !["mcp.maxRequestSizeMB"] = Validated("mcp.maxRequestSizeMB")]
    /\ UNCHANGED config
    /\ UNCHANGED <<varsValidate, varsSync, varsBody, varsHttp, varsTool,
                   varsNotebook, varsModule>>

InitConfig ==
    /\ \E size \in ConfiguredValues("maxOutputSize"),
          seconds \in ConfiguredValues("timeoutSeconds"),
          requestSeconds \in ConfiguredValues("mcp.requestTimeoutSeconds"),
          megabytes \in ConfiguredValues("mcp.maxRequestSizeMB") :
           config = [k \in NumericKeys |->
                        CASE k = "maxOutputSize" -> size
                          [] k = "timeoutSeconds" -> seconds
                          [] k = "mcp.requestTimeoutSeconds" -> requestSeconds
                          [] k = "mcp.maxRequestSizeMB" -> megabytes]
    /\ settings = [k \in NumericKeys |-> Unread]
    /\ IdleValidate
    /\ IdleSync
    /\ IdleBody
    /\ IdleHttp
    /\ IdleTool
    /\ IdleNotebook
    /\ IdleModule

NextConfig == getNotebookSettings \/ getMCPSettings

SpecConfig == InitConfig /\ [][NextConfig]_vars

\* C33: a setting that has been read is the configured value when that is
\* a number within [min, max], min when it is below, max when it is above,
\* and the default when it is not a number or is NaN; so the execution
\* timeout lies in [5, 300] s, the request timeout in [30, 3600] s, the
\* maximum request size in [1, 100] MiB and the maximum output size in
\* [100, 50000] characters
Clamped(key, lo, hi) ==
    LET value == config[key]
        got == settings[key]
    IN  got # Unread =>
            /\ lo <= got /\ got <= hi
            /\ (value.kind = "number" /\ lo <= value.n /\ value.n <= hi) =>
                   got = value.n
            /\ (value.kind = "number" /\ value.n < lo) => got = lo
            /\ value.kind = "-Infinity" => got = lo
            /\ (value.kind = "number" /\ value.n > hi) => got = hi
            /\ value.kind = "Infinity" => got = hi
            /\ value.kind \in {"NaN", "string", "undefined"} =>
                   got = Arguments(key).defaultValue
C33_SettingsClamped ==
    /\ Clamped("timeoutSeconds", 5, 300)
    /\ Clamped("mcp.requestTimeoutSeconds", 30, 3600)
    /\ Clamped("mcp.maxRequestSizeMB", 1, 100)
    /\ Clamped("maxOutputSize", 100, 50000)
\* all four settings read: one configured below its minimum, one above its
\* maximum, one NaN and one within its bounds
C33_Witness ==
    /\ config["timeoutSeconds"] = Number(4)
    /\ settings["timeoutSeconds"] = 5
    /\ config["maxOutputSize"] = Number(50001)
    /\ settings["maxOutputSize"] = 50000
    /\ config["mcp.requestTimeoutSeconds"] = NotANumber
    /\ settings["mcp.requestTimeoutSeconds"] = 600
    /\ config["mcp.maxRequestSizeMB"] = Number(99)
    /\ settings["mcp.maxRequestSizeMB"] = 99

====
